---- MODULE Spec2Model ----
(***************************************************************************)
(* State-machine model of the double-buffered Vulkan image preprocessor    *)
(* (VulkanImageProcessor) of the text_enhancer sample: one CPU thread that *)
(* calls Initialize / SubmitPreprocessImage / SyncPreprocess / Shutdown,   *)
(* and one GPU compute queue that executes the submitted command buffers   *)
(* in submission order and signals their fences.                           *)
(***************************************************************************)
EXTENDS Integers, Sequences, FiniteSets, TLC

\* ------------------------------------------------------------------ bounds
\* Number of distinct CPU frames (contents of an in_data buffer).
NumFrames == 2
\* Number of distinct platform-buffer handles.
NumHandles == 2
\* Number of public calls (Submit, Sync, Shutdown) one behaviour makes.
MaxCalls == 3
\* Largest maximum input width or height a caller configures.
MaxInDim == 2
\* Largest small output width or height a caller configures (besides 256).
MaxOutDim == 2
\* Largest number of physical devices the instance enumerates.
MaxDevices == 2
\* Largest number of queue families a physical device reports.
MaxFamilies == 2
\* Most frames a session that preprocesses on the CPU is taken through.
MaxSyncs == 3
\* Iterations of the standalone driver's loop (its num_runs).
NumRuns == 1
\* Largest channel count of a model's input tensor.
MaxModelChannels == 4

\* ------------------------------------------------------- program constants
kMaxFramesInFlight == 2
\* The only channel count SubmitPreprocessImage accepts (RGBA).
kRequiredChannels == 4

Slots == 0 .. (kMaxFramesInFlight - 1)
Frames == 1 .. NumFrames
Handles == 1 .. NumHandles
Channels == {kRequiredChannels - 1, kRequiredChannels}
InDims == 1 .. MaxInDim
OutDims == (1 .. MaxOutDim) \cup {256}

\* VK_NULL_HANDLE / nullptr.
VK_NULL_HANDLE == 0
\* Contents of memory nothing has written yet (indeterminate bytes).
Unwritten == 0
\* No successful Sync yet.
NoSync == Unwritten - 1
\* The view of the persistent input image (in_image_view_).
PersistentView == -1

\* Pixels of CPU frame f and of the platform buffer with handle h.
CpuPixels(f) == f
AhbPixels(h) == NumFrames + h
\* The compute shader (an external collaborator): output bytes for input pixels.
Shader(pixels) == IF pixels = Unwritten THEN Unwritten ELSE 100 + pixels

VARIABLES
    pc,                      \* position of the CPU thread
    cur,                     \* the call in progress (or the last one made)
    ret,                     \* return value of the last call that returned
    calls,                   \* number of public calls made
    lifecycle,               \* "constructed", "initialized", "failed", "shutdown"
    context_,                \* context_ is non-null
    query_pool_,             \* can_query_timestamps of this device
    fences_,                 \* fences_[s] is signaled
    queue,                   \* slots whose command buffer is pending on the GPU
    command_buffers_,        \* commands recorded in command_buffers_[s]
    staging_buffers_,        \* contents of staging_buffers_[s]
    in_image_,               \* persistent input image: pixels and layout
    output_buffers_device_,  \* contents of output_buffers_device_[s]
    readback_buffers_,       \* contents of readback_buffers_[s]
    descriptor_sets_,        \* binding 0 (image view) of descriptor_sets_[s]
    last_in_ahb_,            \* cached platform-buffer handle
    ahb_in_image_,           \* image of the cached import (VK_NULL_HANDLE if none)
    ahb_in_image_memory_,    \* its memory
    ahb_in_image_view_,      \* its view
    ahb_source,              \* platform buffer the last import aliases
    live,                    \* Vulkan handles created and not yet destroyed
    next_handle,             \* next fresh Vulkan handle value
    out_data,                \* bytes the last SyncPreprocess copied out
    given,                   \* given[s]: inputs handed to successful Submits on s
    lastOk,                  \* lastOk[s]: pixels of the most recent successful Submit on s
    everReset,               \* everReset[s]: some Submit has reset fences_[s]
    synced,                  \* synced[s]: bytes of the last successful Sync on s since
                             \* the last Submit call on s (NoSync if none)
    resourcesDestroyed,      \* the persistent resources have been destroyed
    kEnableValidationLayers, \* the build enables the validation layers
    lifetime_calls,          \* the Initialize and Shutdown calls made, with their outcomes
    config,                  \* the arguments the caller passes to Initialize
    out_size_bytes_,         \* bytes of one output tensor
    in_staging_size_bytes_,  \* capacity of a staging buffer in bytes
    copied_bytes,            \* bytes the last SyncPreprocess copied to out_data
    last_timings_,           \* last_timings_[s]: the TimingInfo fields holding a measurement
    helper_in,               \* arguments of a direct call of a helper function
    helper_out,              \* what that call recorded or returned, and whether it threw
    session,                 \* the TextEnhancerSession that owns the processor, if any
    main                     \* the standalone driver: its position and what it has run

hostVars == <<pc, cur, ret, calls, lifecycle, context_, query_pool_>>
slotVars == <<fences_, command_buffers_, staging_buffers_,
              output_buffers_device_, readback_buffers_>>
ahbVars == <<last_in_ahb_, ahb_in_image_, ahb_in_image_memory_, ahb_in_image_view_,
             ahb_source, live, next_handle>>
imageVars == <<in_image_, descriptor_sets_, ahbVars>>
histVars == <<out_data, given, lastOk, everReset, synced, resourcesDestroyed>>
utilVars == <<helper_in, helper_out, session, main>>
sizeVars == <<config, out_size_bytes_, in_staging_size_bytes_, copied_bytes>>
gpuVars == <<kEnableValidationLayers, lifetime_calls>>
processorVars == <<hostVars, slotVars, imageVars, histVars, queue, last_timings_, sizeVars,
                   gpuVars, helper_in, helper_out>>
vars == <<hostVars, slotVars, imageVars, histVars, queue, utilVars, last_timings_, sizeVars,
          gpuVars>>

\* ----------------------------------------------------------------- helpers
NoCall == [op |-> "none", slot |-> 0, arg |-> 0, cached |-> 0,
           waited |-> FALSE, destroyed |-> FALSE, imported |-> FALSE,
           reset |-> FALSE, prev |-> NoSync, gpu_failed |-> FALSE,
           w |-> 0, h |-> 0, ch |-> 0]

NewCall(op, s, a) == [NoCall EXCEPT !.op = op, !.slot = s, !.arg = a,
                                     !.cached = last_in_ahb_]

Cmd(op, x, y, i) == [op |-> op, x |-> x, y |-> y, i |-> i]

Pending(s) == \E k \in 1 .. Len(queue) : queue[k] = s

\* (old, new) pairs VulkanUtils::TransitionImageLayout has a branch for.
SupportedTransitions ==
    { <<"UNDEFINED", "TRANSFER_DST_OPTIMAL">>,
      <<"TRANSFER_DST_OPTIMAL", "SHADER_READ_ONLY_OPTIMAL">>,
      <<"UNDEFINED", "GENERAL">>,
      <<"GENERAL", "TRANSFER_SRC_OPTIMAL">>,
      <<"UNDEFINED", "SHADER_READ_ONLY_OPTIMAL">>,
      <<"TRANSFER_DST_OPTIMAL", "GENERAL">> }

\* The pairs the super_resolution sample's copy of the helper has a branch for.
SupportedTransitionsSuperResolution ==
    { <<"UNDEFINED", "TRANSFER_DST_OPTIMAL">>,
      <<"TRANSFER_DST_OPTIMAL", "SHADER_READ_ONLY_OPTIMAL">>,
      <<"UNDEFINED", "GENERAL">>,
      <<"GENERAL", "TRANSFER_SRC_OPTIMAL">>,
      <<"UNDEFINED", "SHADER_READ_ONLY_OPTIMAL">> }

\* The core VkImageLayout values.
Layouts ==
    { "UNDEFINED", "GENERAL", "COLOR_ATTACHMENT_OPTIMAL",
      "DEPTH_STENCIL_ATTACHMENT_OPTIMAL", "DEPTH_STENCIL_READ_ONLY_OPTIMAL",
      "SHADER_READ_ONLY_OPTIMAL", "TRANSFER_SRC_OPTIMAL", "TRANSFER_DST_OPTIMAL",
      "PREINITIALIZED" }

\* The statements of a recording block in program order; a statement that
\* throws is kept as a Throw entry, which ends the block (see Recorded).
EmptyRecording == <<>>

Record(r, c) == Append(r, c)

\* Mutant: a pair without a branch gets a default barrier instead of a throw.
TransitionImageLayoutWithFallback(r, old, new) ==
    Append(r, Cmd("ImageBarrier", old, new, 0))

\* The super_resolution sample's VulkanUtils::TransitionImageLayout.
TransitionImageLayoutSuperResolution(r, old, new) ==
    Append(r, IF <<old, new>> \in SupportedTransitionsSuperResolution
              THEN Cmd("ImageBarrier", old, new, 0)
              ELSE Cmd("Throw", old, new, 0))

\* VulkanUtils::TransitionImageLayout: one image barrier, or a throw and no
\* command for a pair outside the supported set.
TransitionImageLayout(r, old, new) ==
    Append(r, IF <<old, new>> \in SupportedTransitions
              THEN Cmd("ImageBarrier", old, new, 0)
              ELSE Cmd("Throw", old, new, 0))

RecordIf(cond, r, c) == IF cond THEN Record(r, c) ELSE r

\* What the try block leaves behind: the commands recorded before the first
\* throw, and whether control reached the catch handler.
Recorded(r) ==
    LET thrown == {i \in DOMAIN r : r[i].op = "Throw"}
        first == CHOOSE i \in thrown : \A j \in thrown : i <= j
    IN IF thrown = {}
       THEN [cmds |-> r, threw |-> FALSE]
       ELSE [cmds |-> SubSeq(r, 1, first - 1), threw |-> TRUE]

\* query_pool_info.queryCount of the pool VulkanContext::createDevice creates.
queryCount == 4

\* Commands both paths record from the first timestamp to the end.
RecordDispatchAndReadback(r0, s) ==
    LET base == s * 4
        r1 == RecordIf(query_pool_, r0, Cmd("WriteTimestamp", "COMPUTE_SHADER", "", base + 0))
        r2 == Record(r1, Cmd("BindPipeline", "", "", 0))
        r3 == Record(r2, Cmd("BindDescriptorSets", "", "", s))
        r4 == Record(r3, Cmd("PushConstants", "", "", 0))
        r5 == Record(r4, Cmd("Dispatch", "", "", s))
        r6 == RecordIf(query_pool_, r5, Cmd("WriteTimestamp", "COMPUTE_SHADER", "", base + 1))
        r7 == Record(r6, Cmd("MemoryBarrier", "SHADER_WRITE", "TRANSFER_READ", 0))
        r8 == RecordIf(query_pool_, r7, Cmd("WriteTimestamp", "TRANSFER", "", base + 2))
        r9 == Record(r8, Cmd("CopyBuffer", "output_device", "readback", s))
        r10 == RecordIf(query_pool_, r9, Cmd("WriteTimestamp", "TRANSFER", "", base + 3))
        r11 == Record(r10, Cmd("MemoryBarrier", "TRANSFER_WRITE", "HOST_READ", 0))
    IN r11

\* Mutant: the CPU-buffer path does not transition the image back after the copy.
RecordCpuLeavesTransferDst(s) ==
    LET r0 == RecordIf(query_pool_, EmptyRecording, Cmd("ResetQueryPool", "", "", s * 4))
        r1 == TransitionImageLayout(r0, "GENERAL", "TRANSFER_DST_OPTIMAL")
        r2 == Record(r1, Cmd("CopyBufferToImage", "staging", "in_image", s))
    IN RecordDispatchAndReadback(r2, s)

\* Command buffer of the CPU-buffer path.
RecordCpu(s) ==
    LET r0 == RecordIf(query_pool_, EmptyRecording, Cmd("ResetQueryPool", "", "", s * 4))
        r1 == TransitionImageLayout(r0, "GENERAL", "TRANSFER_DST_OPTIMAL")
        r2 == Record(r1, Cmd("CopyBufferToImage", "staging", "in_image", s))
        r3 == TransitionImageLayout(r2, "TRANSFER_DST_OPTIMAL", "GENERAL")
    IN RecordDispatchAndReadback(r3, s)

\* Mutant: the platform-buffer path records the resources of slot 0 for every slot.
RecordAhbSlotZero(s) ==
    LET r0 == RecordIf(query_pool_, EmptyRecording, Cmd("ResetQueryPool", "", "", s * 4))
    IN RecordDispatchAndReadback(r0, 0)

\* Command buffer of the platform-buffer path.
RecordAhb(s) ==
    LET r0 == RecordIf(query_pool_, EmptyRecording, Cmd("ResetQueryPool", "", "", s * 4))
    IN RecordDispatchAndReadback(r0, s)

\* Pixels a shader invocation reads through an image view.
ViewPixels(view, image) ==
    IF view = PersistentView THEN image.pixels
    ELSE IF view \in live /\ view = ahb_in_image_view_ THEN AhbPixels(ahb_source)
    ELSE Unwritten

\* The GPU's execution of a recorded command list over the device memory.
RECURSIVE GpuRun(_, _)
GpuRun(cmds, st) ==
    IF cmds = <<>> THEN st
    ELSE LET c == Head(cmds)
             st2 ==
               IF c.op = "ImageBarrier"
               THEN [st EXCEPT !.image.layout = c.y]
               ELSE IF c.op = "CopyBufferToImage"
               THEN [st EXCEPT !.image.pixels = staging_buffers_[c.i]]
               ELSE IF c.op = "Dispatch"
               THEN [st EXCEPT !.out[c.i] = Shader(ViewPixels(descriptor_sets_[c.i], st.image))]
               ELSE IF c.op = "CopyBuffer"
               THEN [st EXCEPT !.rb[c.i] = st.out[c.i]]
               ELSE st
         IN GpuRun(Tail(cmds), st2)

\* ------------------------------------------------------ object lifetimes
\* A Vulkan object, or a step of Initialize, named after the member or call.
Obj(name, i) == <<name, i>>

Range(seq) == {seq[i] : i \in DOMAIN seq}

\* Number of times object o was destroyed.
Destroyed(o, log) == Cardinality({i \in DOMAIN log : log[i] = o})

\* vkDeviceWaitIdle, as an entry of the log.
WaitIdle == Obj("vkDeviceWaitIdle", 0)

\* The fence local to VulkanContext::EndAndSubmitCommands.
OneTimeFence == Obj("fence", kMaxFramesInFlight)

\* The pipeline's cached device_ (no object of its own).
PipelineDevice == Obj("compute_pipeline_.device_", 0)

\* if (h != VK_NULL_HANDLE) { vkDestroy...(h); h = VK_NULL_HANDLE; } for each
\* member of seq in order.
DestroySeq(g, seq) ==
    [g EXCEPT !.log = @ \o SelectSeq(seq, LAMBDA o : o \in g.handles),
              !.handles = @ \ Range(seq)]

\* Mutant: the device is destroyed before its pools.
ContextShutdownOrderDeviceFirst ==
    <<Obj("device_", 0), Obj("query_pool_", 0), Obj("command_pool_", 0)>>
    \o (IF kEnableValidationLayers THEN <<Obj("debug_messenger_", 0)>> ELSE <<>>)
    \o <<Obj("instance_", 0)>>

\* The members VulkanContext::Shutdown tests, in its order.
ContextShutdownOrder ==
    <<Obj("query_pool_", 0), Obj("command_pool_", 0), Obj("device_", 0)>>
    \o (IF kEnableValidationLayers THEN <<Obj("debug_messenger_", 0)>> ELSE <<>>)
    \o <<Obj("instance_", 0)>>

\* VulkanContext::Shutdown.
ContextShutdown(g) ==
    LET w == IF Obj("device_", 0) \in g.handles
             THEN [g EXCEPT !.log = Append(@, WaitIdle)] ELSE g
    IN DestroySeq(w, ContextShutdownOrder)

\* Mutant: Shutdown destroys the objects and leaves the handles in the members.
PipelineShutdownKeepsHandles(g) ==
    [g EXCEPT !.log = @ \o SelectSeq(<<Obj("compute_pipeline_", 0), Obj("pipeline_layout_", 0),
                                        Obj("descriptor_set_layout_", 0),
                                        Obj("compute_shader_module_", 0)>>,
                                      LAMBDA o : o \in g.handles)]

\* VulkanComputePipeline::Shutdown.
PipelineShutdown(g) ==
    IF PipelineDevice \notin g.handles THEN g
    ELSE [DestroySeq(g, <<Obj("compute_pipeline_", 0), Obj("pipeline_layout_", 0),
                          Obj("descriptor_set_layout_", 0),
                          Obj("compute_shader_module_", 0)>>)
             EXCEPT !.handles = @ \ {PipelineDevice}]

\* What createPersistentResources creates for slot s, in order.
SlotSteps(s) ==
    <<Obj("staging_buffers_", s), Obj("staging_buffers_memory_", s),
      Obj("output_buffers_device_", s), Obj("output_buffers_device_memory_", s),
      Obj("readback_buffers_", s), Obj("readback_buffers_memory_", s),
      Obj("fences_", s)>>

\* What destroyPersistentResources tests for slot s, in order.
SlotDestroyOrder(s) ==
    <<Obj("fences_", s),
      Obj("staging_buffers_", s), Obj("staging_buffers_memory_", s),
      Obj("output_buffers_device_", s), Obj("output_buffers_device_memory_", s),
      Obj("readback_buffers_", s), Obj("readback_buffers_memory_", s)>>

\* The creation steps of slots 0 .. n-1, one slot after the other.
RECURSIVE AllSlotSteps(_)
AllSlotSteps(n) == IF n = 0 THEN <<>> ELSE AllSlotSteps(n - 1) \o SlotSteps(n - 1)

\* The destroy tests of slots 0 .. n-1, one slot after the other.
RECURSIVE AllSlotDestroyOrder(_)
AllSlotDestroyOrder(n) ==
    IF n = 0 THEN <<>> ELSE AllSlotDestroyOrder(n - 1) \o SlotDestroyOrder(n - 1)

\* destroyPersistentResources, the imported image apart.
DestroyPersistentResources(g) ==
    IF Obj("device_", 0) \notin g.handles THEN g
    ELSE DestroySeq(g, <<Obj("descriptor_pool_", 0), Obj("command_buffers_", 0),
                         Obj("in_image_view_", 0), Obj("in_image_", 0),
                         Obj("in_image_memory_", 0)>>
                       \o AllSlotDestroyOrder(kMaxFramesInFlight))

\* VulkanImageProcessor::Shutdown: wait, destroy the resources, then shut down
\* and release the pipeline and the context (whose destructors shut down again).
ProcessorShutdown(g) ==
    LET w == IF Obj("device_", 0) \in g.handles
             THEN [g EXCEPT !.log = Append(@, WaitIdle)] ELSE g
    IN ContextShutdown(ContextShutdown(
         PipelineShutdown(PipelineShutdown(DestroyPersistentResources(w)))))

\* The fallible steps of VulkanImageProcessor::Initialize in program order.
InitSteps ==
    <<Obj("instance_", 0), Obj("findPhysicalDevice", 0), Obj("device_", 0),
      Obj("command_pool_", 0),
      Obj("vkGetDeviceProcAddr", 0),
      Obj("compute_shader_module_", 0), Obj("descriptor_set_layout_", 0),
      Obj("pipeline_layout_", 0), Obj("compute_pipeline_", 0),
      Obj("in_image_", 0), Obj("in_image_memory_", 0), Obj("in_image_view_", 0),
      Obj("command_buffers_", 0)>>
    \o AllSlotSteps(kMaxFramesInFlight)
    \o <<Obj("descriptor_pool_", 0), Obj("vkAllocateDescriptorSets", 0),
         OneTimeFence, Obj("vkQueueSubmit", 0)>>

\* Steps that leave no handle in a member.
NonMemberSteps ==
    {Obj("findPhysicalDevice", 0), Obj("vkGetDeviceProcAddr", 0),
     Obj("vkAllocateDescriptorSets", 0), OneTimeFence, Obj("vkQueueSubmit", 0)}

\* The steps VulkanContext::Initialize and VulkanComputePipeline::Initialize make.
ContextSteps ==
    <<Obj("instance_", 0), Obj("findPhysicalDevice", 0), Obj("device_", 0),
      Obj("command_pool_", 0)>>
PipelineSteps ==
    <<Obj("compute_shader_module_", 0), Obj("descriptor_set_layout_", 0),
      Obj("pipeline_layout_", 0), Obj("compute_pipeline_", 0)>>

\* The steps of seq completed when step k fails (all of them when k = 0).
Done(seq, k) == IF k = 0 THEN Range(seq) ELSE {seq[i] : i \in 1 .. (k - 1)}

\* The objects and members after the steps in done: the debug messenger and the
\* query pool are optional, and the pipeline caches the device before its first step.
AfterSteps(done, messengerOk, poolOk) ==
    LET members ==
          (done \ NonMemberSteps)
          \cup (IF kEnableValidationLayers /\ messengerOk /\ Obj("instance_", 0) \in done
                THEN {Obj("debug_messenger_", 0)} ELSE {})
          \cup (IF poolOk /\ Obj("device_", 0) \in done
                THEN {Obj("query_pool_", 0)} ELSE {})
    IN [created |-> members \cup (done \cap {OneTimeFence}),
        handles |-> members \cup (IF Obj("vkGetDeviceProcAddr", 0) \in done
                                  THEN {PipelineDevice} ELSE {}),
        log |-> <<>>]

\* VulkanContext::Initialize on its own, failing at step k of ContextSteps: the
\* failing paths return false without calling Shutdown.
ContextInitialize(k, messengerOk, poolOk) ==
    AfterSteps(Done(ContextSteps, k), messengerOk, poolOk)

\* VulkanImageProcessor::Initialize failing at step k of InitSteps (0: no step
\* fails). A failing pipeline shuts itself down; every failure ends in Shutdown.
\* On success the one-time fence has been destroyed by EndAndSubmitCommands.
InitializeOutcome(k, messengerOk, poolOk) ==
    LET g == AfterSteps(Done(InitSteps, k), messengerOk, poolOk)
    IN IF k = 0 THEN [g EXCEPT !.log = <<OneTimeFence>>]
       ELSE ProcessorShutdown(IF InitSteps[k] \in Range(PipelineSteps)
                              THEN PipelineShutdown(g) ELSE g)

\* VulkanComputePipeline::Initialize on its own, failing at step k of
\* PipelineSteps (0: no step fails): the device is cached first, and the handler
\* of a failing step calls Shutdown.
PipelineInitialize(k) ==
    LET done == Done(PipelineSteps, k)
        g == [created |-> done, handles |-> done \cup {PipelineDevice}, log |-> <<>>]
    IN IF k = 0 THEN g ELSE PipelineShutdown(g)

\* An Initialize or Shutdown call of the processor or of a context on its own.
LifetimeCall(op, k, messengerOk, poolOk) ==
    [op |-> op, k |-> k, messengerOk |-> messengerOk, poolOk |-> poolOk]

\* The objects, members and destroy calls after call c was made in g.
AfterCall(g, c) ==
    IF c.op = "ContextShutdown" THEN ContextShutdown(g)
    ELSE IF c.op = "Shutdown" THEN ProcessorShutdown(g)
    ELSE IF c.op = "PipelineShutdown" THEN PipelineShutdown(g)
    ELSE IF c.op = "PipelineInitializeNoContext" THEN g
    ELSE LET n == IF c.op = "ContextInitialize"
                  THEN ContextInitialize(c.k, c.messengerOk, c.poolOk)
                  ELSE IF c.op = "PipelineInitialize"
                  THEN PipelineInitialize(c.k)
                  ELSE InitializeOutcome(c.k, c.messengerOk, c.poolOk)
         IN [created |-> g.created \cup n.created,
             handles |-> g.handles \cup n.handles,
             log |-> g.log \o n.log]

\* The objects created, the members holding a handle and the destroy calls
\* made, after the calls in cs.
RECURSIVE AfterCalls(_)
AfterCalls(cs) ==
    IF cs = <<>> THEN [created |-> {}, handles |-> {}, log |-> <<>>]
    ELSE AfterCall(AfterCalls(SubSeq(cs, 1, Len(cs) - 1)), cs[Len(cs)])

GpuState == AfterCalls(lifetime_calls)
\* Vulkan objects created so far.
created == GpuState.created
\* Members that hold a non-null handle.
handles == GpuState.handles
\* The vkDestroy/vkFree calls made so far, in order.
destroy_log == GpuState.log

\* ---------------------------------------------------------------- initial
\* The configuration the sample application initializes the processor with,
\* its input maximum scaled down.
DefaultConfig ==
    [max_in_width |-> 1, max_in_height |-> 1, max_in_channels |-> 4,
     out_width |-> 256, out_height |-> 256, is_output_int8 |-> FALSE]

\* Configurations a caller may pass: every output shape with the default input
\* maximum, and every input maximum with the default output shape.
Configs ==
    { [DefaultConfig EXCEPT !.out_width = w, !.out_height = h, !.is_output_int8 = i8] :
        w \in OutDims, h \in OutDims, i8 \in BOOLEAN }
    \cup
    { [DefaultConfig EXCEPT !.max_in_width = w, !.max_in_height = h, !.max_in_channels = c] :
        w \in InDims, h \in InDims, c \in Channels }

\* Widths and heights of the frames a caller submits: up to the larger of the
\* two maxima it configured.
FrameDims(cfg) ==
    1 .. (IF cfg.max_in_width >= cfg.max_in_height
          THEN cfg.max_in_width ELSE cfg.max_in_height)

\* sizeof(int8_t) or sizeof(float).
SampleBytes(cfg) == IF cfg.is_output_int8 THEN 1 ELSE 4

\* Mutant: the output tensor is sized for four channels per pixel.
OutSizeBytesRgba(cfg) == cfg.out_width * cfg.out_height * 4 * SampleBytes(cfg)

\* Initialize's out_size_bytes_.
OutSizeBytes(cfg) == cfg.out_width * cfg.out_height * 3 * SampleBytes(cfg)

\* Initialize's in_staging_size_bytes_.
InStagingSizeBytes(cfg) == cfg.max_in_width * cfg.max_in_height * cfg.max_in_channels

\* The fields of TimingInfo.
TimingFields ==
    {"staging_copy_ms", "readback_copy_ms", "gpu_submit_wait_ms",
     "gpu_shader_ms", "gpu_readback_ms"}

\* A value-initialized TimingInfo: every field is 0.0, none holds a measurement.
NoTimings == {}

\* Mutant: a measurement is assigned to the fields fs of every slot.
MeasuredInEverySlot(s, fs) == [t \in Slots |-> last_timings_[t] \cup fs]

\* last_timings_ after the fields fs of slot s were assigned a measurement.
Measured(s, fs) == [last_timings_ EXCEPT ![s] = @ \cup fs]

\* No helper call made yet.
NotCalled == [cmds |-> <<>>, threw |-> FALSE, called |-> FALSE]

\* The helper call the processor itself starts with (createPersistentResources).
DefaultHelperIn ==
    [old |-> "UNDEFINED", new |-> "GENERAL", impl |-> "text_enhancer", prior |-> <<>>]

\* frame_index_ of a new session: frame i goes to slot i mod 2, from frame 0 on.
InitialFrameIndex == 0

\* No session has been created around the processor.
NoSession ==
    [stage |-> "none", status |-> "none", handled |-> 0,
     use_int8_preprocessor |-> FALSE, model_int8 |-> FALSE,
     preprocessor_type |-> "none", is_int8_input |-> FALSE,
     frame_index_ |-> InitialFrameIndex, preprocessed_data_ |-> [s \in Slots |-> Unwritten],
     input_buffer |-> [data |-> Unwritten, frame |-> NoSync],
     submitted |-> NoSync, synced_slot |-> NoSync, syncs |-> 0,
     data |-> [idx |-> NoSync, bytes |-> Unwritten]]

\* The standalone driver is not running.
NoMain == [pc |-> "none", android |-> FALSE, i |-> 0, runs |-> 0, consumed |-> NoSync]

\* Public calls of the processor one run makes: at most MaxCalls by a caller
\* that calls at will, a Submit and a Sync per frame by the standalone driver.
CallLimit == IF main.pc = "none" THEN MaxCalls ELSE 2 * (NumRuns + 1)

\* The processor as its constructor leaves it, on its own.
InitProcessor ==
    /\ session = NoSession
    /\ main = NoMain
    /\ pc = "idle"
    /\ cur = NoCall
    /\ ret = "none"
    /\ calls = 0
    /\ lifecycle = "constructed"
    /\ context_ = FALSE
    /\ query_pool_ = FALSE
    /\ fences_ = [s \in Slots |-> FALSE]
    /\ queue = <<>>
    /\ command_buffers_ = [s \in Slots |-> <<>>]
    /\ staging_buffers_ = [s \in Slots |-> Unwritten]
    /\ in_image_ = [pixels |-> Unwritten, layout |-> "UNDEFINED"]
    /\ output_buffers_device_ = [s \in Slots |-> Unwritten]
    /\ readback_buffers_ = [s \in Slots |-> Unwritten]
    /\ descriptor_sets_ = [s \in Slots |-> VK_NULL_HANDLE]
    /\ last_in_ahb_ = VK_NULL_HANDLE
    /\ ahb_in_image_ = VK_NULL_HANDLE
    /\ ahb_in_image_memory_ = VK_NULL_HANDLE
    /\ ahb_in_image_view_ = VK_NULL_HANDLE
    /\ live = {}
    /\ ahb_source = VK_NULL_HANDLE
    /\ next_handle = 1
    /\ out_data = Unwritten
    /\ given = [s \in Slots |-> {}]
    /\ lastOk = [s \in Slots |-> Unwritten]
    /\ everReset = [s \in Slots |-> FALSE]
    /\ synced = [s \in Slots |-> NoSync]
    /\ resourcesDestroyed = FALSE
    /\ last_timings_ = [s \in Slots |-> NoTimings]
    /\ out_size_bytes_ = 0
    /\ in_staging_size_bytes_ = 0
    /\ copied_bytes = 0
    /\ lifetime_calls = <<>>

Init ==
    /\ InitProcessor
    /\ kEnableValidationLayers = FALSE
    /\ config = DefaultConfig
    /\ helper_in = DefaultHelperIn
    /\ helper_out = NotCalled

\* Return from the call in progress.
Return(value) ==
    /\ pc' = "idle"
    /\ ret' = value

\* ------------------------------------------------------------- Initialize
\* Mutant: the fences are created without VK_FENCE_CREATE_SIGNALED_BIT.
InitialFencesUnsignaled == [s \in Slots |-> FALSE]

\* createPersistentResources: both fences are created signaled.
InitialFences == [s \in Slots |-> TRUE]

\* The optional objects a context that fails at step k can have come to create.
OptionalObjects(k, messengerOk, poolOk) ==
    /\ messengerOk => (kEnableValidationLayers /\ k # 1)
    /\ poolOk => k \notin 1 .. 3

\* VulkanImageProcessor::Initialize: step k fails (0: none does); poolOk says
\* whether the device has timestamps and the query pool was created.
Initialize ==
    /\ pc = "idle"
    /\ lifecycle = "constructed"
    /\ \E k \in 0 .. Len(InitSteps), messengerOk \in BOOLEAN, poolOk \in BOOLEAN :
            /\ OptionalObjects(k, messengerOk, poolOk)
            /\ lifetime_calls' =
                 Append(lifetime_calls, LifetimeCall("Initialize", k, messengerOk, poolOk))
            /\ IF k = 0
               THEN /\ lifecycle' = "initialized"
                    /\ context_' = TRUE
                    /\ query_pool_' = poolOk
                    /\ fences_' = InitialFences
                    /\ descriptor_sets_' = [s \in Slots |-> PersistentView]
                    /\ in_image_' = [in_image_ EXCEPT !.layout = "GENERAL"]
                    /\ ret' = "true"
               ELSE /\ lifecycle' = "failed"
                    /\ ret' = "false"
                    /\ UNCHANGED <<context_, query_pool_, fences_, descriptor_sets_,
                                   in_image_>>
    /\ out_size_bytes_' = OutSizeBytes(config)
    /\ in_staging_size_bytes_' = InStagingSizeBytes(config)
    /\ cur' = NewCall("Initialize", 0, 0)
    /\ UNCHANGED <<pc, calls, queue, command_buffers_, staging_buffers_,
                   output_buffers_device_, readback_buffers_, ahbVars, histVars, utilVars,
                   last_timings_, config, copied_bytes, kEnableValidationLayers>>

\* ------------------------------------------- SubmitPreprocessImage (CPU path)
\* Mutant: the input size is not compared with the staging capacity.
ExceedsStagingUnchecked(in_size_bytes) == FALSE

\* in_size_bytes > in_staging_size_bytes_.
ExceedsStaging(in_size_bytes) == in_size_bytes > in_staging_size_bytes_

\* Entry checks of the CPU-path Submit: false without touching the slot when
\* the processor is not initialized, the input is not 4-channel or it is larger
\* than the staging buffer.
CallSubmitCpu(s, f, w, h, ch) ==
    /\ pc = "idle"
    /\ calls < CallLimit
    /\ calls' = calls + 1
    /\ cur' = [NewCall("SubmitCpu", s, f) EXCEPT !.w = w, !.h = h, !.ch = ch]
    /\ IF ~context_ \/ ch # kRequiredChannels \/ ExceedsStaging(w * h * ch)
       THEN Return("false") /\ UNCHANGED last_timings_
       ELSE /\ pc' = "wait" /\ ret' = "none"
            /\ last_timings_' = [last_timings_ EXCEPT ![s] = NoTimings]
    /\ synced' = [synced EXCEPT ![s] = NoSync]
    /\ UNCHANGED <<lifecycle, context_, query_pool_, slotVars, imageVars, out_data, given,
                   lastOk, everReset, resourcesDestroyed, queue, utilVars, sizeVars, gpuVars>>

\* Mutant: Submit waits for the fences of all slots.
SubmitFenceWaitAll(s) == \A t \in Slots : fences_[t]

\* Mutant: Submit does not wait for the slot's fence.
SubmitFenceWaitSkipped(s) == TRUE

\* Submit's vkWaitForFences(fences_[s], UINT64_MAX) returns.
SubmitFenceWait(s) == fences_[s]

\* Step 1 of both Submit paths: wait on the slot's fence, then reset it.
SubmitWaitFence ==
    /\ pc = "wait"
    /\ SubmitFenceWait(cur.slot)
    /\ fences_' = [fences_ EXCEPT ![cur.slot] = FALSE]
    /\ cur' = [cur EXCEPT !.reset = TRUE]
    /\ everReset' = [everReset EXCEPT ![cur.slot] = TRUE]
    /\ pc' = IF cur.op = "SubmitCpu" THEN "stage" ELSE "import"
    /\ last_timings_' = Measured(cur.slot, {"gpu_submit_wait_ms"})
    /\ UNCHANGED <<ret, calls, lifecycle, context_, query_pool_, command_buffers_,
                   staging_buffers_, output_buffers_device_, readback_buffers_,
                   imageVars, out_data, given, lastOk, synced, resourcesDestroyed, queue,
                   utilVars, sizeVars, gpuVars>>

\* Step 2 of the CPU path: map the staging memory (may throw) and copy the input.
SubmitCpuStage ==
    /\ pc = "stage"
    /\ \E mapOk \in BOOLEAN :
         IF mapOk
         THEN /\ staging_buffers_' = [staging_buffers_ EXCEPT ![cur.slot] = CpuPixels(cur.arg)]
              /\ last_timings_' = Measured(cur.slot, {"staging_copy_ms"})
              /\ pc' = "record"
              /\ ret' = ret
              /\ cur' = cur
         ELSE /\ Return("false")
              /\ cur' = [cur EXCEPT !.gpu_failed = TRUE]
              /\ UNCHANGED <<staging_buffers_, last_timings_>>
    /\ UNCHANGED <<calls, lifecycle, context_, query_pool_, fences_, command_buffers_,
                   output_buffers_device_, readback_buffers_, imageVars, histVars, queue,
                   utilVars, sizeVars, gpuVars>>

\* Step 3 of either path: re-record the slot's command buffer and submit it
\* against the slot's fence. A throw while recording, or a failed
\* vkQueueSubmit, returns false; cur.gpu_failed notes that a Vulkan call failed.
RecordAndSubmit(r, pixels) ==
    /\ command_buffers_' = [command_buffers_ EXCEPT ![cur.slot] = r.cmds]
    /\ \E submitOk \in BOOLEAN :
         IF ~r.threw /\ submitOk
         THEN /\ queue' = Append(queue, cur.slot)
              /\ given' = [given EXCEPT ![cur.slot] = @ \cup {pixels}]
              /\ lastOk' = [lastOk EXCEPT ![cur.slot] = pixels]
              /\ cur' = cur
              /\ Return("true")
         ELSE /\ r.threw => submitOk
              /\ UNCHANGED <<queue, given, lastOk>>
              /\ cur' = [cur EXCEPT !.gpu_failed = ~submitOk]
              /\ Return("false")

SubmitCpuRecord ==
    /\ pc = "record"
    /\ cur.op = "SubmitCpu"
    /\ RecordAndSubmit(Recorded(RecordCpu(cur.slot)), CpuPixels(cur.arg))
    /\ UNCHANGED <<calls, lifecycle, context_, query_pool_, fences_, staging_buffers_,
                   output_buffers_device_, readback_buffers_, imageVars, out_data,
                   everReset, synced, resourcesDestroyed, utilVars, last_timings_, sizeVars, gpuVars>>

\* -------------------------------- SubmitPreprocessImage (platform-buffer path)
\* Entry check of the platform-buffer Submit.
CallSubmitAhb(s, h) ==
    /\ pc = "idle"
    /\ calls < CallLimit
    /\ calls' = calls + 1
    /\ cur' = NewCall("SubmitAhb", s, h)
    /\ IF ~context_
       THEN Return("false") /\ UNCHANGED last_timings_
       ELSE /\ pc' = "wait" /\ ret' = "none"
            /\ last_timings_' = [last_timings_ EXCEPT ![s] = NoTimings]
    /\ synced' = [synced EXCEPT ![s] = NoSync]
    /\ UNCHANGED <<lifecycle, context_, query_pool_, slotVars, imageVars, out_data, given,
                   lastOk, everReset, resourcesDestroyed, queue, utilVars, sizeVars, gpuVars>>

\* Mutant: any live import is reused, whatever the handle.
CacheHitAnyImport(h) == ahb_in_image_ # VK_NULL_HANDLE

\* The cached import can be reused for handle h.
CacheHit(h) == ~(h # last_in_ahb_ \/ ahb_in_image_ = VK_NULL_HANDLE)

\* Mutant: no wait for the device.
DeviceIdleSkipped == TRUE

\* vkDeviceWaitIdle returns: nothing is pending on the queue.
DeviceIdle == queue = <<>>

\* Mutant: the import path relies on the wait for its own slot's fence only.
ImportWaitsOwnSlotOnly == ~Pending(cur.slot)

\* The vkDeviceWaitIdle of the re-import path returns.
ImportDeviceWait == DeviceIdle

\* destroyAhbInputResources: destroy and null whatever is non-null.
AhbAfterDestroy ==
    [image |-> VK_NULL_HANDLE, memory |-> VK_NULL_HANDLE, view |-> VK_NULL_HANDLE,
     last |-> VK_NULL_HANDLE,
     live |-> live \ {ahb_in_image_, ahb_in_image_memory_, ahb_in_image_view_}]

\* Ways the import of a new handle can end.
ImportOutcomes == {"props_failed", "alloc_failed", "view_failed", "submit_failed", "ok"}

\* VulkanUtils::ImportAhbToImage on the members left by destroyAhbInputResources,
\* followed by the caller's one-shot layout transition. The handles are
\* next_handle (image), next_handle + 1 (memory) and next_handle + 2 (view).
ImportAhbToImage(d, outcome) ==
    LET img == next_handle
        mem == next_handle + 1
        view == next_handle + 2
    IN IF outcome = "props_failed" THEN d
       ELSE IF outcome = "alloc_failed"
       THEN [d EXCEPT !.image = img]
       ELSE IF outcome = "view_failed"
       THEN [d EXCEPT !.image = img, !.memory = mem, !.live = @ \cup {img, mem}]
       ELSE [d EXCEPT !.image = img, !.memory = mem, !.view = view,
                      !.live = @ \cup {img, mem, view}]

\* Mutant: only the descriptor set of the submitted slot is rewritten.
DescriptorSetsOwnSlotOnly(view) == [descriptor_sets_ EXCEPT ![cur.slot] = view]

\* Binding 0 of the descriptor set of every slot is pointed at the new view.
DescriptorSetsAfterImport(view) == [s \in Slots |-> view]

\* Step 2 of the platform-buffer path: reuse the cached import, or wait for the
\* whole device, destroy the old import, import the new handle, point every
\* descriptor set at it, transition it to GENERAL and cache the handle.
SubmitAhbImport ==
    /\ pc = "import"
    /\ IF CacheHit(cur.arg)
       THEN /\ pc' = "record"
            /\ last_timings_' = Measured(cur.slot, {"staging_copy_ms"})
            /\ UNCHANGED <<cur, ret, imageVars>>
       ELSE /\ ImportDeviceWait
            /\ \E outcome \in ImportOutcomes :
                 LET a == ImportAhbToImage(AhbAfterDestroy, outcome)
                     imported == outcome \in {"submit_failed", "ok"}
                 IN /\ ahb_in_image_' = a.image
                    /\ ahb_in_image_memory_' = a.memory
                    /\ ahb_in_image_view_' = a.view
                    /\ live' = a.live
                    /\ next_handle' = IF outcome = "props_failed" THEN next_handle
                                      ELSE next_handle + 3
                    /\ ahb_source' = IF imported THEN cur.arg ELSE ahb_source
                    /\ descriptor_sets_' = IF imported
                                           THEN DescriptorSetsAfterImport(a.view)
                                           ELSE descriptor_sets_
                    /\ last_in_ahb_' = IF outcome = "ok" THEN cur.arg ELSE a.last
                    /\ cur' = [cur EXCEPT !.waited = TRUE, !.destroyed = TRUE,
                                          !.imported = imported,
                                          !.gpu_failed = outcome # "ok"]
                    /\ IF outcome = "ok"
                       THEN /\ pc' = "record" /\ ret' = ret
                            /\ last_timings_' = Measured(cur.slot, {"staging_copy_ms"})
                       ELSE Return("false") /\ UNCHANGED last_timings_
            /\ UNCHANGED in_image_
    /\ UNCHANGED <<calls, lifecycle, context_, query_pool_, slotVars, histVars, queue, utilVars, sizeVars, gpuVars>>

SubmitAhbRecord ==
    /\ pc = "record"
    /\ cur.op = "SubmitAhb"
    /\ RecordAndSubmit(Recorded(RecordAhb(cur.slot)), AhbPixels(cur.arg))
    /\ UNCHANGED <<calls, lifecycle, context_, query_pool_, fences_, staging_buffers_,
                   output_buffers_device_, readback_buffers_, imageVars, out_data,
                   everReset, synced, resourcesDestroyed, utilVars, last_timings_, sizeVars, gpuVars>>

\* ---------------------------------------------------------- SyncPreprocess
CallSync(s) ==
    /\ pc = "idle"
    /\ calls < CallLimit
    /\ calls' = calls + 1
    /\ cur' = [NewCall("Sync", s, 0) EXCEPT !.prev = synced[s]]
    /\ IF ~context_
       THEN Return("false")
       ELSE pc' = "sync_wait" /\ ret' = "none"
    /\ UNCHANGED <<lifecycle, context_, query_pool_, slotVars, imageVars, histVars, queue, utilVars, last_timings_, sizeVars, gpuVars>>

\* Mutant: Sync does not wait for the slot's fence.
SyncFenceWaitSkipped(s) == TRUE

\* Sync's vkWaitForFences(fences_[s], UINT64_MAX) returns.
SyncFenceWait(s) == fences_[s]

\* Mutant: Sync resets the fence after waiting on it, as Submit does.
SyncWaitFenceAndReset ==
    /\ pc = "sync_wait"
    /\ SyncFenceWait(cur.slot)
    /\ fences_' = [fences_ EXCEPT ![cur.slot] = FALSE]
    /\ pc' = "sync_read"
    /\ UNCHANGED <<cur, ret, calls, lifecycle, context_, query_pool_, command_buffers_,
                   staging_buffers_, output_buffers_device_, readback_buffers_,
                   imageVars, histVars, queue, utilVars, last_timings_, sizeVars, gpuVars>>

\* Step 1 of Sync: vkWaitForFences on the slot's fence (which stays signaled).
SyncWaitFence ==
    /\ pc = "sync_wait"
    /\ SyncFenceWait(cur.slot)
    /\ pc' = "sync_read"
    /\ UNCHANGED <<cur, ret, calls, lifecycle, context_, query_pool_, slotVars,
                   imageVars, histVars, queue, utilVars, last_timings_, sizeVars, gpuVars>>

\* Mutant: Sync reads the timestamps whether or not the device has them.
can_query_timestamps_always == TRUE

\* Sync's can_query_timestamps: the pool exists (it is only ever created when
\* timestamp_period_ > 0, so the period test adds nothing).
can_query_timestamps == query_pool_

\* Steps 2 and 3 of Sync: read the slot's four timestamps if the device has
\* them (the two GPU timings are assigned on VK_SUCCESS only), then map the
\* readback memory (may throw) and copy it out.
SyncRead ==
    /\ pc = "sync_read"
    /\ \E queryOk \in BOOLEAN, mapOk \in BOOLEAN :
         LET gpu == IF can_query_timestamps /\ queryOk
                    THEN {"gpu_shader_ms", "gpu_readback_ms"} ELSE {}
         IN /\ ~can_query_timestamps => queryOk
            /\ IF mapOk
               THEN /\ out_data' = readback_buffers_[cur.slot]
                    /\ synced' = [synced EXCEPT ![cur.slot] = readback_buffers_[cur.slot]]
                    /\ copied_bytes' = out_size_bytes_
                    /\ last_timings_' = Measured(cur.slot, gpu \cup {"readback_copy_ms"})
                    /\ Return("true")
               ELSE /\ last_timings_' = Measured(cur.slot, gpu)
                    /\ Return("false")
                    /\ UNCHANGED <<out_data, synced, copied_bytes>>
    /\ UNCHANGED <<cur, calls, lifecycle, context_, query_pool_, slotVars, imageVars,
                   given, lastOk, everReset, resourcesDestroyed, queue, utilVars,
                   config, out_size_bytes_, in_staging_size_bytes_, gpuVars>>

\* ---------------------------------------------------------------- Shutdown
CallShutdown ==
    /\ pc = "idle"
    /\ calls < CallLimit
    /\ calls' = calls + 1
    /\ cur' = NewCall("Shutdown", 0, 0)
    /\ IF ~context_
       THEN Return("none")
       ELSE pc' = "shut_wait" /\ ret' = "none"
    /\ UNCHANGED <<lifecycle, context_, query_pool_, slotVars, imageVars, histVars, queue, utilVars, last_timings_, sizeVars, gpuVars>>

\* vkDeviceWaitIdle, then destroyPersistentResources, then the pipeline and
\* the context are shut down and released.
ShutdownDestroy ==
    /\ pc = "shut_wait"
    /\ DeviceIdle
    /\ resourcesDestroyed' = TRUE
    /\ fences_' = [s \in Slots |-> FALSE]
    /\ command_buffers_' = [s \in Slots |-> <<>>]
    /\ descriptor_sets_' = [s \in Slots |-> VK_NULL_HANDLE]
    /\ ahb_in_image_' = AhbAfterDestroy.image
    /\ ahb_in_image_memory_' = AhbAfterDestroy.memory
    /\ ahb_in_image_view_' = AhbAfterDestroy.view
    /\ last_in_ahb_' = AhbAfterDestroy.last
    /\ live' = AhbAfterDestroy.live
    /\ context_' = FALSE
    /\ lifecycle' = "shutdown"
    /\ lifetime_calls' = Append(lifetime_calls, LifetimeCall("Shutdown", 0, FALSE, FALSE))
    /\ Return("none")
    /\ UNCHANGED <<cur, calls, query_pool_, staging_buffers_, output_buffers_device_,
                   readback_buffers_, in_image_, ahb_source, next_handle, out_data,
                   given, lastOk, everReset, synced, queue, utilVars, last_timings_, sizeVars, kEnableValidationLayers>>

\* ------------------------------------------------------------------- GPU
\* The compute queue finishes the oldest pending command buffer and signals
\* the fence it was submitted against.
GpuExecute ==
    /\ queue # <<>>
    /\ LET s == Head(queue)
           st == GpuRun(command_buffers_[s],
                        [image |-> in_image_, out |-> output_buffers_device_,
                         rb |-> readback_buffers_])
       IN /\ in_image_' = st.image
          /\ output_buffers_device_' = st.out
          /\ readback_buffers_' = st.rb
          /\ fences_' = [fences_ EXCEPT ![s] = TRUE]
    /\ queue' = Tail(queue)
    /\ UNCHANGED <<hostVars, command_buffers_, staging_buffers_, descriptor_sets_,
                   ahbVars, histVars, utilVars, last_timings_, sizeVars, gpuVars>>

Next ==
    \/ Initialize
    \/ \E s \in Slots, f \in Frames, w \in FrameDims(config), h \in FrameDims(config),
          ch \in Channels :
          CallSubmitCpu(s, f, w, h, ch)
    \/ \E s \in Slots, h \in Handles : CallSubmitAhb(s, h)
    \/ \E s \in Slots : CallSync(s)
    \/ CallShutdown
    \/ SubmitWaitFence
    \/ SubmitCpuStage
    \/ SubmitCpuRecord
    \/ SubmitAhbImport
    \/ SubmitAhbRecord
    \/ SyncWaitFence
    \/ SyncRead
    \/ ShutdownDestroy
    \/ GpuExecute

Spec == Init /\ [][Next]_vars

\* ================================================================== claims
SubmitOps == {"SubmitCpu", "SubmitAhb"}
Other(s) == 1 - s

\* C1: while Submit(s) overwrites the staging buffer of slot s, or resets and
\* re-records its command buffer (that is, after its fence wait), no command
\* buffer submitted for slot s is pending on the GPU.
C1_NoPendingWorkWhenSlotReused ==
    (cur.op \in SubmitOps /\ pc \in {"stage", "import", "record"}) => ~Pending(cur.slot)

\* A Submit is about to overwrite the staging buffer of a slot that an
\* earlier successful Submit had used.
C1_Witness == pc = "stage" /\ lastOk[cur.slot] # Unwritten

\* C2: when Sync(s) maps the readback buffer after a successful Submit(s), the
\* work of the most recent successful Submit(s) is no longer pending and the
\* readback buffer holds its output; those are the bytes a Sync that returns
\* true has delivered.
C2_SyncDeliversLatestSubmit ==
    /\ (pc = "sync_read" /\ lastOk[cur.slot] # Unwritten)
          => /\ ~Pending(cur.slot)
             /\ readback_buffers_[cur.slot] = Shader(lastOk[cur.slot])
    /\ (pc = "idle" /\ cur.op = "Sync" /\ ret = "true" /\ lastOk[cur.slot] # Unwritten)
          => out_data = Shader(lastOk[cur.slot])

\* A Sync returned true on a slot that two Submits with different inputs had
\* used, and delivered the output of the later one.
C2_Witness ==
    /\ pc = "idle" /\ cur.op = "Sync" /\ ret = "true"
    /\ Cardinality(given[cur.slot]) = 2
    /\ out_data = Shader(lastOk[cur.slot])

\* Slot s's staging buffer, device output buffer, readback buffer, fence and
\* command buffer.
SlotResources(s) == <<staging_buffers_[s], output_buffers_device_[s], readback_buffers_[s],
                      fences_[s], command_buffers_[s]>>

\* C3: a step of a Submit or a Sync on one slot never changes the resources of
\* the other slot, and the readback buffer of a slot (hence what Sync copies
\* out of it) only ever holds output computed from an input given to a Submit
\* on that same slot.
C3_SlotIsolation ==
    /\ [][\A s \in Slots :
            (/\ calls' # calls \/ (pc # "idle" /\ hostVars' # hostVars)
             /\ cur'.op \in SubmitOps \cup {"Sync"} /\ cur'.slot # s)
              => SlotResources(s)' = SlotResources(s)]_vars
    /\ [](\A s \in Slots :
            readback_buffers_[s] \in {Unwritten} \cup {Shader(p) : p \in given[s]})
    /\ []((pc = "idle" /\ cur.op = "Sync" /\ ret = "true")
            => out_data \in {Unwritten} \cup {Shader(p) : p \in given[cur.slot]})

\* A Sync delivered the output of its own slot while the other slot had been
\* given a different input.
C3_Witness ==
    /\ pc = "idle" /\ cur.op = "Sync" /\ ret = "true"
    /\ out_data # Unwritten
    /\ lastOk[Other(cur.slot)] \notin {Unwritten, lastOk[cur.slot]}
    /\ readback_buffers_[Other(cur.slot)] # Unwritten

\* C5 (as claimed): once a Submit(s) has returned false after its fence wait,
\* slot s stays usable: its fence is signaled, or work that will signal it is
\* pending, so the next wait on it returns.
C5_UsableAfterFailedSubmit ==
    (pc = "idle" /\ cur.op \in SubmitOps /\ cur.reset /\ ret = "false")
      => (fences_[cur.slot] \/ Pending(cur.slot))

\* The GPU finishes every submitted command buffer, and the CPU thread runs
\* Shutdown to its end once the device is idle.
LiveSpec == Spec /\ WF_vars(GpuExecute) /\ WF_vars(ShutdownDestroy)

\* C6: Shutdown destroys the persistent resources only once nothing is
\* pending on the GPU, and a Shutdown that has started always completes.
C6_ShutdownDrainsThenDestroys ==
    /\ [](resourcesDestroyed => queue = <<>>)
    /\ [][resourcesDestroyed' # resourcesDestroyed => queue = <<>>]_vars
    /\ (pc = "shut_wait") ~> (lifecycle = "shutdown")

\* Shutdown completed after a successful Submit that was never synced and a
\* Submit on the other slot that returned false after writing its staging buffer.
C6_Witness ==
    /\ lifecycle = "shutdown" /\ resourcesDestroyed
    /\ out_data = Unwritten
    /\ \E s \in Slots : lastOk[s] # Unwritten /\ staging_buffers_[Other(s)] # Unwritten

\* C7: after Initialize, a slot's fence is signaled until a Submit on that
\* slot resets it, so the first Submit on each slot passes its fence wait.
C7_FencesPreSignaled ==
    \A s \in Slots : (lifecycle = "initialized" /\ ~everReset[s]) => fences_[s]

\* The first Submit on slot 1 has passed its fence wait while the work of the
\* first Submit on slot 0 is still pending and no GPU work has completed.
C7_Witness ==
    /\ pc \in {"stage", "import"} /\ cur.slot = 1 /\ given[1] = {}
    /\ queue = <<0>>
    /\ \A s \in Slots : output_buffers_device_[s] = Unwritten

C9_RepeatedSyncIdentical ==
    /\ (pc = "sync_wait" /\ cur.prev # NoSync) => fences_[cur.slot]
    /\ (pc = "idle" /\ cur.op = "Sync" /\ ret = "true" /\ cur.prev # NoSync)
          => out_data = cur.prev

\* A second consecutive Sync returned true with the shader output of the first.
C9_Witness ==
    /\ pc = "idle" /\ cur.op = "Sync" /\ ret = "true"
    /\ cur.prev \notin {NoSync, Unwritten}

\* C10: a platform-buffer Submit past its fence wait whose handle equals the
\* cached one has done no device-wide wait, no destroy and no import and has
\* left the cache alone; one whose handle differs has done the device-wide
\* wait and the destroy, and once its import has completed the cached handle
\* is the submitted one.
C10_ImportOnlyOnHandleChange ==
    (cur.op = "SubmitAhb" /\ cur.reset /\ pc \in {"record", "idle"})
      => IF cur.arg = cur.cached
         THEN /\ ~cur.waited /\ ~cur.destroyed /\ ~cur.imported
              /\ last_in_ahb_ = cur.cached
         ELSE /\ cur.waited /\ cur.destroyed
              /\ (pc = "record" \/ ret = "true")
                    => (cur.imported /\ last_in_ahb_ = cur.arg)

\* A Submit reused the cached import after two imports of different handles.
C10_Witness ==
    /\ pc = "idle" /\ cur.op = "SubmitAhb" /\ ret = "true"
    /\ cur.arg = cur.cached
    /\ next_handle >= 7

\* C11: a step of the platform-buffer Submit that destroys the cached import
\* (image, view, memory), rewrites a descriptor set or replaces the cached
\* handle is taken after the device-wide wait, in a state where no command
\* buffer of either slot is pending.
C11_ReplaceOnlyWhenDeviceIdle ==
    [][(/\ pc = "import"
        /\ \/ <<ahb_in_image_, ahb_in_image_memory_, ahb_in_image_view_>>'
                 # <<ahb_in_image_, ahb_in_image_memory_, ahb_in_image_view_>>
           \/ live' # live
           \/ descriptor_sets_' # descriptor_sets_
           \/ last_in_ahb_' # last_in_ahb_)
         => (cur'.waited /\ queue = <<>> /\ \A s \in Slots : ~Pending(s))]_vars

\* A Submit replaced the import of another handle that the other slot's
\* completed work had read.
C11_Witness ==
    /\ pc \in {"record", "idle"} /\ cur.op = "SubmitAhb"
    /\ cur.destroyed /\ cur.imported
    /\ cur.cached \notin {VK_NULL_HANDLE, cur.arg}
    /\ lastOk[Other(cur.slot)] = AhbPixels(cur.cached)
    /\ readback_buffers_[Other(cur.slot)] = Shader(AhbPixels(cur.cached))

\* C12: after a platform-buffer Submit has returned true, binding 0 of the
\* descriptor set of every slot references the view of the cached import,
\* which is live and was imported from the submitted handle.
C12_AllSlotsBoundToCachedImport ==
    (pc = "idle" /\ cur.op = "SubmitAhb" /\ ret = "true")
      => /\ \A s \in Slots : descriptor_sets_[s] = ahb_in_image_view_
         /\ ahb_in_image_view_ \in live
         /\ last_in_ahb_ = cur.arg /\ ahb_source = cur.arg

\* A Submit on slot 1 imported a second handle after slot 0 had used the first.
C12_Witness ==
    /\ pc = "idle" /\ cur.op = "SubmitAhb" /\ ret = "true"
    /\ cur.slot = 1 /\ cur.imported
    /\ lastOk[0] \notin {Unwritten, lastOk[1]}
    /\ descriptor_sets_[0] = ahb_in_image_view_
\* ------------------------------------------- every configuration, few calls
SizeInit ==
    /\ InitProcessor
    /\ kEnableValidationLayers = FALSE
    /\ config \in Configs
    /\ helper_in = DefaultHelperIn
    /\ helper_out = NotCalled

\* The processor's steps, for callers that make one call fewer and use one
\* slot, one frame content and one platform buffer.
SizeNext == Next /\ calls' < MaxCalls /\ cur'.slot = 0 /\ cur'.arg <= 1

SizeSpec == SizeInit /\ [][SizeNext]_vars

\* ---------------------------------------------------- the context alone
ContextInit ==
    /\ InitProcessor
    /\ kEnableValidationLayers \in BOOLEAN
    /\ config = DefaultConfig
    /\ helper_in = DefaultHelperIn
    /\ helper_out = NotCalled

\* VulkanContext::Initialize, failing at step k of ContextSteps (0: succeeding).
CallContextInitialize ==
    /\ lifecycle = "constructed"
    /\ \E k \in 0 .. Len(ContextSteps), messengerOk \in BOOLEAN, poolOk \in BOOLEAN :
            /\ OptionalObjects(k, messengerOk, poolOk)
            /\ lifetime_calls' =
                 Append(lifetime_calls,
                        LifetimeCall("ContextInitialize", k, messengerOk, poolOk))
            /\ lifecycle' = IF k = 0 THEN "initialized" ELSE "failed"
            /\ ret' = IF k = 0 THEN "true" ELSE "false"
            /\ cur' = NewCall("ContextInitialize", 0, k)
    /\ UNCHANGED <<pc, calls, context_, query_pool_, slotVars, imageVars, histVars, queue,
                   utilVars, last_timings_, sizeVars, kEnableValidationLayers>>

\* VulkanContext::Shutdown, called at any time and any number of times.
CallContextShutdown ==
    /\ calls < CallLimit
    /\ calls' = calls + 1
    /\ lifetime_calls' =
         Append(lifetime_calls, LifetimeCall("ContextShutdown", 0, FALSE, FALSE))
    /\ lifecycle' = IF lifecycle = "constructed" THEN lifecycle ELSE "shutdown"
    /\ cur' = NewCall("ContextShutdown", 0, cur.arg)
    /\ ret' = "none"
    /\ UNCHANGED <<pc, context_, query_pool_, slotVars, imageVars, histVars, queue,
                   utilVars, last_timings_, sizeVars, kEnableValidationLayers>>

ContextNext ==
    \/ CallContextInitialize
    \/ CallContextShutdown

ContextSpec == ContextInit /\ [][ContextNext]_vars

\* ---------------------------------------------------- the pipeline alone
PipelineInit ==
    /\ InitProcessor
    /\ kEnableValidationLayers = FALSE
    /\ config = DefaultConfig
    /\ helper_in = DefaultHelperIn
    /\ helper_out = NotCalled

\* VulkanComputePipeline::Initialize: false at once for a null context, else
\* step k of PipelineSteps fails (0: none does).
CallPipelineInitialize ==
    /\ lifecycle = "constructed"
    /\ \E k \in 0 .. Len(PipelineSteps), contextOk \in BOOLEAN :
            /\ ~contextOk => k = 0
            /\ lifetime_calls' =
                 Append(lifetime_calls,
                        LifetimeCall(IF contextOk THEN "PipelineInitialize"
                                     ELSE "PipelineInitializeNoContext", k, FALSE, FALSE))
            /\ lifecycle' = IF contextOk /\ k = 0 THEN "initialized" ELSE "failed"
            /\ ret' = IF contextOk /\ k = 0 THEN "true" ELSE "false"
            /\ cur' = NewCall("PipelineInitialize", 0, k)
    /\ UNCHANGED <<pc, calls, context_, query_pool_, slotVars, imageVars, histVars, queue,
                   utilVars, last_timings_, sizeVars, kEnableValidationLayers>>

\* VulkanComputePipeline::Shutdown, called at any time and any number of times.
CallPipelineShutdown ==
    /\ lifecycle # "destroyed"
    /\ calls < CallLimit
    /\ calls' = calls + 1
    /\ lifetime_calls' =
         Append(lifetime_calls, LifetimeCall("PipelineShutdown", 0, FALSE, FALSE))
    /\ lifecycle' = IF lifecycle = "constructed" THEN lifecycle ELSE "shutdown"
    /\ cur' = NewCall("PipelineShutdown", 0, cur.arg)
    /\ ret' = "none"
    /\ UNCHANGED <<pc, context_, query_pool_, slotVars, imageVars, histVars, queue,
                   utilVars, last_timings_, sizeVars, kEnableValidationLayers>>

\* ~VulkanComputePipeline: one more Shutdown, after which the object is gone.
PipelineDestructor ==
    /\ lifecycle # "destroyed"
    /\ lifetime_calls' =
         Append(lifetime_calls, LifetimeCall("PipelineShutdown", 0, FALSE, FALSE))
    /\ lifecycle' = "destroyed"
    /\ cur' = NewCall("~VulkanComputePipeline", 0, cur.arg)
    /\ ret' = "none"
    /\ UNCHANGED <<pc, calls, context_, query_pool_, slotVars, imageVars, histVars, queue,
                   utilVars, last_timings_, sizeVars, kEnableValidationLayers>>

PipelineNext ==
    \/ CallPipelineInitialize
    \/ CallPipelineShutdown
    \/ PipelineDestructor

PipelineSpec == PipelineInit /\ [][PipelineNext]_vars

\* ------------------------------------------- the device selection alone
\* A queue family: whether VK_QUEUE_COMPUTE_BIT is set in queueFlags, and
\* whether timestampValidBits > 0.
QueueFamilies == [compute : BOOLEAN, timestamps : BOOLEAN]

\* The sequences over S of length at most n.
SeqsUpTo(S, n) == UNION {[1 .. k -> S] : k \in 0 .. n}

\* What vkEnumeratePhysicalDevices and vkGetPhysicalDeviceQueueFamilyProperties
\* can report: the devices in enumeration order, each with its queue families.
PhysicalDevices == SeqsUpTo(SeqsUpTo(QueueFamilies, MaxFamilies), MaxDevices)

\* Mutant: the families are searched from the highest index down.
RECURSIVE FirstComputeFamilyFromEnd(_, _)
FirstComputeFamilyFromEnd(queue_families, i) ==
    IF i >= Len(queue_families) THEN -1
    ELSE IF queue_families[Len(queue_families) - i].compute
    THEN Len(queue_families) - i - 1
    ELSE FirstComputeFamilyFromEnd(queue_families, i + 1)

\* The inner loop of findPhysicalDevice from index i on: the index of the first
\* family with the compute bit, -1 when the loop ends without one.
RECURSIVE FirstComputeFamily(_, _)
FirstComputeFamily(queue_families, i) ==
    IF i >= Len(queue_families) THEN -1
    ELSE IF queue_families[i + 1].compute THEN i
    ELSE FirstComputeFamily(queue_families, i + 1)

\* No device selected: findPhysicalDevice returned false.
NoDevice ==
    [called |-> TRUE, found |-> FALSE, physical_device_ |-> VK_NULL_HANDLE,
     compute_queue_family_index_ |-> 0, timestamps |-> FALSE]

\* The outer loop of findPhysicalDevice from the d-th enumerated device on.
RECURSIVE ScanDevices(_, _)
ScanDevices(devices, d) ==
    IF d > Len(devices) THEN NoDevice
    ELSE LET i == FirstComputeFamily(devices[d], 0)
         IN IF i >= 0
            THEN [called |-> TRUE, found |-> TRUE, physical_device_ |-> d,
                  compute_queue_family_index_ |-> i,
                  timestamps |-> devices[d][i + 1].timestamps]
            ELSE ScanDevices(devices, d + 1)

\* VulkanContext::findPhysicalDevice.
findPhysicalDevice(devices) ==
    IF Len(devices) = 0 THEN NoDevice ELSE ScanDevices(devices, 1)

DeviceInit ==
    /\ InitProcessor
    /\ kEnableValidationLayers = FALSE
    /\ config = DefaultConfig
    /\ helper_in \in [devices : PhysicalDevices]
    /\ helper_out = NotCalled

\* VulkanContext::Initialize reaches findPhysicalDevice on the drawn devices.
CallFindPhysicalDevice ==
    /\ ~helper_out.called
    /\ helper_out' = findPhysicalDevice(helper_in.devices)
    /\ ret' = IF helper_out'.found THEN "true" ELSE "false"
    /\ UNCHANGED <<pc, cur, calls, lifecycle, context_, query_pool_, slotVars, imageVars,
                   histVars, queue, helper_in, session, main, last_timings_,
                   sizeVars, gpuVars>>

DeviceNext == CallFindPhysicalDevice

DeviceSpec == DeviceInit /\ [][DeviceNext]_vars

\* ------------------------------------------------- the layout helper alone
\* A direct call of the helper on a command buffer that already holds prior.
HelperInputs ==
    [old : Layouts, new : Layouts, impl : {"text_enhancer", "super_resolution"},
     prior : {EmptyRecording, <<Cmd("Dispatch", 0, 0, 0)>>}]

TransitionInit ==
    /\ InitProcessor
    /\ kEnableValidationLayers = FALSE
    /\ config = DefaultConfig
    /\ helper_in \in HelperInputs
    /\ helper_out = NotCalled

\* What the caller observes: the commands recorded before the throw, if any.
HelperResult(r) ==
    LET res == Recorded(r)
    IN [cmds |-> res.cmds, threw |-> res.threw, called |-> TRUE]

\* The text_enhancer helper is called with the drawn pair.
CallTransitionImageLayout ==
    /\ ~helper_out.called
    /\ helper_in.impl = "text_enhancer"
    /\ helper_out' = HelperResult(
           TransitionImageLayout(helper_in.prior, helper_in.old, helper_in.new))
    /\ UNCHANGED <<hostVars, slotVars, imageVars, histVars, queue, helper_in, session, main, last_timings_,
                   sizeVars, gpuVars>>

\* The super_resolution helper is called with the drawn pair.
CallTransitionImageLayoutSuperResolution ==
    /\ ~helper_out.called
    /\ helper_in.impl = "super_resolution"
    /\ helper_out' = HelperResult(
           TransitionImageLayoutSuperResolution(helper_in.prior, helper_in.old,
                                                helper_in.new))
    /\ UNCHANGED <<hostVars, slotVars, imageVars, histVars, queue, helper_in, session, main, last_timings_,
                   sizeVars, gpuVars>>

TransitionNext ==
    \/ CallTransitionImageLayout
    \/ CallTransitionImageLayoutSuperResolution

TransitionSpec == TransitionInit /\ [][TransitionNext]_vars

\* The set of pairs the called copy of the helper has a branch for.
SupportedBy(impl) ==
    IF impl = "text_enhancer" THEN SupportedTransitions
    ELSE SupportedTransitionsSuperResolution

\* C19: for every (old, new) pair outside the supported set the layout helper
\* raises an error and records no barrier: the command buffer holds exactly
\* what it held before the call.  For a pair inside the set it records exactly
\* one barrier for that pair and does not raise.
C19_UnsupportedPairThrowsAndRecordsNothing ==
    helper_out.called =>
        IF <<helper_in.old, helper_in.new>> \in SupportedBy(helper_in.impl)
        THEN /\ ~helper_out.threw
             /\ helper_out.cmds =
                  Append(helper_in.prior,
                         Cmd("ImageBarrier", helper_in.old, helper_in.new, 0))
        ELSE /\ helper_out.threw
             /\ helper_out.cmds = helper_in.prior
             /\ \A k \in 1..Len(helper_out.cmds) :
                    helper_out.cmds[k].op # "ImageBarrier"

C19_Witness ==
    /\ helper_out.called /\ helper_out.threw
    /\ helper_in.impl = "text_enhancer"
    /\ helper_in.old = "GENERAL" /\ helper_in.new = "TRANSFER_DST_OPTIMAL"
    /\ helper_in.prior # EmptyRecording
    /\ helper_out.cmds = helper_in.prior

\* C18: every layout transition Initialize and Submit request is one the helper
\* supports, so a CPU-path Submit that passed its entry checks on an
\* initialized processor, and in which no Vulkan call failed, returns true.
C18_ValidCpuSubmitSucceeds ==
    (pc = "idle" /\ cur.op = "SubmitCpu" /\ cur.reset /\ ~cur.gpu_failed)
        => ret = "true"

\* C16: the query pool holds 4 timestamps per slot: every query index a
\* recorded command buffer resets or writes (4s .. 4s+3 for slot s), and every
\* index Sync reads back for its slot, lies inside the pool the context created.
C16_QueryIndicesInsidePool ==
    /\ \A s \in Slots : \A k \in 1 .. Len(command_buffers_[s]) :
          LET c == command_buffers_[s][k]
          IN /\ c.op = "WriteTimestamp" => c.i < queryCount
             /\ c.op = "ResetQueryPool" => c.i + 4 <= queryCount
    /\ (pc = "sync_read" /\ query_pool_) => cur.slot * 4 + 4 <= queryCount

\* C17: when the device exposes no queue timestamps (no query pool, which
\* includes a timestamp period of 0), gpu_shader_ms and gpu_readback_ms of every
\* slot are 0 after any sequence of Submit and Sync calls.
C17_NoGpuTimingsWithoutTimestamps ==
    ~query_pool_ =>
        \A s \in Slots : last_timings_[s] \cap {"gpu_shader_ms", "gpu_readback_ms"} = {}

C17_Witness ==
    /\ lifecycle = "initialized" /\ ~query_pool_
    /\ pc = "idle" /\ cur.op = "Sync" /\ ret = "true"
    /\ lastOk[cur.slot] # Unwritten
    /\ "readback_copy_ms" \in last_timings_[cur.slot]
    /\ "gpu_submit_wait_ms" \in last_timings_[cur.slot]

\* C14: a CPU-path Submit whose in_channels is not 4, or whose
\* in_width * in_height * in_channels exceeds the staging capacity
\* maxInWidth * maxInHeight * maxInChannels, returns false and leaves the fence,
\* the TimingInfo, the staging buffer and the command buffer of every slot as
\* they were.
C14_RejectedSubmitLeavesSlotUntouched ==
    [][(/\ pc = "idle" /\ calls' = calls + 1 /\ cur'.op = "SubmitCpu"
        /\ lifecycle = "initialized"
        /\ \/ cur'.ch # 4
           \/ cur'.w * cur'.h * cur'.ch >
                config.max_in_width * config.max_in_height * config.max_in_channels)
       => (/\ pc' = "idle" /\ ret' = "false"
           /\ UNCHANGED <<fences_, last_timings_, staging_buffers_, command_buffers_>>)]_vars

C14_Witness ==
    /\ pc = "idle" /\ cur.op = "SubmitCpu" /\ ret = "false" /\ lifecycle = "initialized"
    /\ cur.ch = 4
    /\ cur.w * cur.h * cur.ch > InStagingSizeBytes(config)
    /\ lastOk[cur.slot] # Unwritten
    /\ last_timings_[cur.slot] # NoTimings
    /\ command_buffers_[cur.slot] # <<>>

\* C13: Sync copies exactly outWidth * outHeight * 3 samples to the caller's
\* buffer - that many bytes in int8 mode, four times as many in float mode -
\* whatever was submitted; for a 256 x 256 float output that is 196608 values.
C13_SyncCopiesWholeOutputTensor ==
    (pc = "idle" /\ cur.op = "Sync" /\ ret = "true")
      => /\ copied_bytes =
              config.out_width * config.out_height * 3
                * (IF config.is_output_int8 THEN 1 ELSE 4)
         /\ (config.out_width = 256 /\ config.out_height = 256 /\ ~config.is_output_int8)
              => copied_bytes \div 4 = 196608

C13_Witness ==
    /\ pc = "idle" /\ cur.op = "Sync" /\ ret = "true"
    /\ config.out_width = 2 /\ config.out_height = 1 /\ config.is_output_int8
    /\ lastOk[cur.slot] # Unwritten
    /\ out_data = Shader(lastOk[cur.slot])
    /\ copied_bytes = 6

\* C15: if any step of the image processor's Initialize fails, Initialize
\* returns false with every GPU object created up to that point destroyed
\* exactly once and no member left holding a handle, and every later Submit
\* and Sync returns false.
C15_FailedInitializeCleansUp ==
    /\ lifecycle = "failed"
         => /\ \A o \in created : Destroyed(o, destroy_log) = 1
            /\ handles = {}
            /\ cur.op \in {"Initialize", "SubmitCpu", "SubmitAhb", "Sync"}
                 => (pc = "idle" /\ ret = "false")
    /\ (cur.op = "Initialize" /\ ret = "false") => lifecycle = "failed"

\* C20: the context's Shutdown waits for the device to be idle and then
\* destroys query pool, command pool, device, debug messenger and instance in
\* that order; after any partial initialization and any number of calls each
\* object that was created has been destroyed exactly once, nothing is
\* destroyed twice, and no child of the device is destroyed after the device.
C20_ContextShutdownOrderedAndIdempotent ==
    LET order == <<WaitIdle, Obj("query_pool_", 0), Obj("command_pool_", 0),
                   Obj("device_", 0), Obj("debug_messenger_", 0), Obj("instance_", 0)>>
        Rank(o) == CHOOSE r \in DOMAIN order : order[r] = o
    IN /\ Range(destroy_log) \subseteq Range(order)
       /\ \A i \in DOMAIN destroy_log : \A j \in DOMAIN destroy_log :
             i < j => Rank(destroy_log[i]) < Rank(destroy_log[j])
       /\ Range(destroy_log) \ {WaitIdle} \subseteq created
       /\ Obj("device_", 0) \in Range(destroy_log) => destroy_log[1] = WaitIdle
       /\ (cur.op = "ContextShutdown" /\ lifecycle # "constructed")
            => /\ \A o \in created : Destroyed(o, destroy_log) = 1
               /\ handles = {}

C20_Witness ==
    /\ cur.op = "ContextShutdown" /\ calls >= 2 /\ lifecycle = "shutdown"
    /\ cur.arg = 4
    /\ kEnableValidationLayers
    /\ created = {Obj("instance_", 0), Obj("debug_messenger_", 0), Obj("device_", 0),
                  Obj("query_pool_", 0)}
    /\ destroy_log = <<WaitIdle, Obj("query_pool_", 0), Obj("device_", 0),
                       Obj("debug_messenger_", 0), Obj("instance_", 0)>>

\* The objects destroyPersistentResources owns, the cached import apart.
PersistentObjects ==
    {Obj("descriptor_pool_", 0), Obj("command_buffers_", 0),
     Obj("in_image_view_", 0), Obj("in_image_", 0), Obj("in_image_memory_", 0)}
    \cup UNION {Range(SlotSteps(s)) : s \in Slots}

\* The handles destroyAhbInputResources passes to vkDestroy*/vkFreeMemory.
ImportHandles ==
    {ahb_in_image_, ahb_in_image_memory_, ahb_in_image_view_} \ {VK_NULL_HANDLE}

\* C21: Shutdown after a successful Initialize destroys every persistent
\* resource (command buffers, both fences, the buffers and memory of every
\* slot, descriptor pool, persistent input image, view and memory, and the
\* cached import) exactly once, all of them before the pipeline and the context
\* are shut down; a second Shutdown destroys nothing, and Submit and Sync after
\* Shutdown return false.
C21_ShutdownDestroysPersistentResourcesOnce ==
    /\ [](lifecycle = "shutdown"
           => LET log == destroy_log
                  Pos(o) == CHOOSE i \in DOMAIN log : log[i] = o
              IN /\ \A o \in PersistentObjects : Destroyed(o, log) = 1
                 /\ \A o \in PersistentObjects :
                      \A q \in Range(log) \ PersistentObjects :
                         (q \notin {OneTimeFence, WaitIdle}) => Pos(o) < Pos(q)
                 /\ live = {} /\ ImportHandles = {}
                 /\ cur.op \in SubmitOps \cup {"Sync"} => (pc = "idle" /\ ret = "false"))
    /\ [][(pc = "shut_wait" /\ lifecycle' = "shutdown") => ImportHandles \subseteq live]_vars
    /\ [][(lifecycle = "shutdown" /\ cur'.op = "Shutdown")
            => (destroy_log' = destroy_log /\ live' = live)]_vars

\* C22: the pipeline's Shutdown releases its four objects (pipeline, pipeline
\* layout, descriptor-set layout, shader module) exactly once: whatever step of
\* Initialize failed and however many Shutdown calls follow, the destructor's
\* included, no object is destroyed twice, only created objects are destroyed,
\* and once a Shutdown has run (the one a failing Initialize runs included)
\* every created object has been destroyed exactly once and no member holds a
\* handle.
C22_PipelineShutdownReleasesOnce ==
    LET log == destroy_log
        made == created
        four == {Obj("compute_pipeline_", 0), Obj("pipeline_layout_", 0),
                 Obj("descriptor_set_layout_", 0), Obj("compute_shader_module_", 0)}
    IN /\ Range(log) \subseteq made /\ made \subseteq four
       /\ \A o \in four : Destroyed(o, log) <= 1
       /\ lifecycle = "initialized" => (made = four /\ log = <<>>)
       /\ lifecycle \in {"failed", "shutdown", "destroyed"}
            => /\ \A o \in made : Destroyed(o, log) = 1
               /\ handles = {}

\* The destructor ran after two explicit Shutdown calls on a fully initialized
\* pipeline, whose four objects were destroyed by the first of them.
C22_Witness ==
    /\ lifecycle = "destroyed" /\ calls = 2 /\ cur.arg = 0
    /\ Len(lifetime_calls) = 4 /\ lifetime_calls[1].op = "PipelineInitialize"
    /\ destroy_log = <<Obj("compute_pipeline_", 0), Obj("pipeline_layout_", 0),
                       Obj("descriptor_set_layout_", 0), Obj("compute_shader_module_", 0)>>

\* C24: context initialization selects the first physical device, in
\* enumeration order, that has a queue family with the compute bit, together
\* with the lowest-index such family of that device, and fails exactly when no
\* enumerated device has one.
C24_FirstComputeDeviceLowestFamily ==
    helper_out.called =>
        LET devices == helper_in.devices
            Compute(d) == {i \in 1 .. Len(devices[d]) : devices[d][i].compute}
            capable == {d \in 1 .. Len(devices) : Compute(d) # {}}
        IN IF capable = {}
           THEN ~helper_out.found /\ ret = "false"
           ELSE /\ helper_out.found /\ ret = "true"
                /\ helper_out.physical_device_ \in capable
                /\ \A d \in capable : helper_out.physical_device_ <= d
                /\ helper_out.compute_queue_family_index_ + 1
                     \in Compute(helper_out.physical_device_)
                /\ \A i \in Compute(helper_out.physical_device_) :
                      helper_out.compute_queue_family_index_ + 1 <= i

\* The second device was selected, with its second family, the first device
\* having families but none with the compute bit.
C24_Witness ==
    /\ helper_out.called /\ helper_out.found
    /\ helper_out.physical_device_ = 2
    /\ helper_out.compute_queue_family_index_ = 1
    /\ Len(helper_in.devices[1]) > 0

\* C25: the command buffer a CPU-path Submit has recorded holds, in this order,
\* the staging-to-image copy, the compute dispatch, the shader-write to
\* transfer-read barrier, the device-output to readback copy and the
\* transfer-write to host-read barrier, each once; when the device has
\* timestamps, the slot's timestamps 0 and 1 bracket the dispatch and its
\* timestamps 2 and 3 bracket the readback copy.
C25_CpuCommandOrder ==
    [][(pc = "record" /\ cur.op = "SubmitCpu" /\ pc' = "idle")
        => LET cmds == command_buffers_'[cur.slot]
               At(op, x, y) == {k \in DOMAIN cmds :
                                  cmds[k].op = op /\ cmds[k].x = x /\ cmds[k].y = y}
               Stamp(n) == {k \in DOMAIN cmds :
                              cmds[k].op = "WriteTimestamp" /\ cmds[k].i = cur.slot * 4 + n}
               Before(A, B) == \A a \in A : \A b \in B : a < b
               copy_in == At("CopyBufferToImage", "staging", "in_image")
               dispatch == At("Dispatch", "", "")
               barrier1 == At("MemoryBarrier", "SHADER_WRITE", "TRANSFER_READ")
               copy_out == At("CopyBuffer", "output_device", "readback")
               barrier2 == At("MemoryBarrier", "TRANSFER_WRITE", "HOST_READ")
           IN /\ \A S \in {copy_in, dispatch, barrier1, copy_out, barrier2} :
                    Cardinality(S) = 1
              /\ Before(copy_in, dispatch) /\ Before(dispatch, barrier1)
              /\ Before(barrier1, copy_out) /\ Before(copy_out, barrier2)
              /\ query_pool_ =>
                    /\ \A n \in 0 .. 3 : Cardinality(Stamp(n)) = 1
                    /\ Before(copy_in, Stamp(0)) /\ Before(Stamp(0), dispatch)
                    /\ Before(dispatch, Stamp(1)) /\ Before(Stamp(1), barrier1)
                    /\ Before(barrier1, Stamp(2)) /\ Before(Stamp(2), copy_out)
                    /\ Before(copy_out, Stamp(3)) /\ Before(Stamp(3), barrier2)]_vars

TerminationSpec ==
    /\ Spec
    /\ WF_vars(GpuExecute)
    /\ WF_vars(SubmitWaitFence \/ SubmitCpuStage \/ SubmitCpuRecord \/ SubmitAhbImport
                  \/ SubmitAhbRecord \/ SyncWaitFence \/ SyncRead \/ ShutdownDestroy)

\* No Submit has just returned false.
SubmitReturnedTrue == ~(pc = "idle" /\ cur.op \in SubmitOps /\ ret = "false")

\* C29: in a run in which every Submit returns true, whenever the thread is
\* between calls or waiting on a fence of the initialized processor, a slot's
\* fence is unsignaled only while a command buffer submitted against it is
\* pending; hence, the GPU finishing every submitted buffer, every Submit and
\* every Sync that was called returns.
C29_SubmitAndSyncReturn ==
    ([]SubmitReturnedTrue)
      => /\ []((lifecycle = "initialized" /\ pc \in {"idle", "wait", "sync_wait"})
                 => \A s \in Slots : ~fences_[s] => Pending(s))
         /\ (pc # "idle" /\ cur.op \in SubmitOps \cup {"Sync"}) ~> (pc = "idle")

\* A Sync that follows one successful Submit is waiting on the slot's fence
\* while the submitted command buffer is still pending.
C29_Witness ==
    /\ pc = "sync_wait" /\ calls = 2
    /\ ~fences_[cur.slot] /\ Pending(cur.slot) /\ lastOk[cur.slot] # Unwritten

\* ------------------------------------------------------- the session API
\* ImageUtils::ResizeImageBilinear (an external collaborator): the resized pixels.
ResizeImageBilinear(pixels) == 200 + pixels

\* a % b on int operands (the quotient truncates toward zero).
Remainder(a, b) == IF a >= 0 THEN a % b ELSE 0 - ((0 - a) % b)

\* Slot of the frame being submitted or synced.
current_idx == Remainder(session.frame_index_, kMaxFramesInFlight)

\* TextEnhancerOptions: input_width and input_height are set, a compute shader
\* path is given, use_int8_preprocessor.
SessionOptions ==
    [input_set : BOOLEAN, compute_shader_path : BOOLEAN, use_int8_preprocessor : BOOLEAN]

\* Mutant: is_int8_input is the element type of the model's input tensor.
IsInt8InputOfModel(options, model_int8) == model_int8

\* session->is_int8_input as TextEnhancer_Initialize_Base assigns it.
IsInt8Input(options, model_int8) == options.use_int8_preprocessor

\* TextEnhancer_Initialize_Base up to the initialization of the processor, for
\* a model whose input tensor is int8 (model_int8) or float32.
TextEnhancer_Initialize_Base(options, model_int8) ==
    /\ session.stage = "none"
    /\ pc = "idle" /\ lifecycle = "constructed"
    /\ LET type == IF options.compute_shader_path THEN "kVulkan" ELSE "kCpu"
           is_int8 == IsInt8Input(options, model_int8)
           made == [session EXCEPT !.use_int8_preprocessor = options.use_int8_preprocessor,
                                   !.model_int8 = model_int8]
           sized == [made EXCEPT !.preprocessor_type = type, !.is_int8_input = is_int8]
       IN /\ config.is_output_int8 = is_int8
          /\ session' =
               IF ~options.input_set THEN [made EXCEPT !.stage = "null"]
               ELSE IF type = "kVulkan"
               THEN IF options.use_int8_preprocessor # is_int8
                    THEN [sized EXCEPT !.stage = "null"]
                    ELSE [sized EXCEPT !.stage = "vulkan_init"]
               ELSE IF is_int8 THEN [sized EXCEPT !.stage = "null"]
                    ELSE [sized EXCEPT !.stage = "created"]
    /\ UNCHANGED <<processorVars, main>>

\* The rest of it, once VulkanImageProcessor::Initialize has returned.
InitializeBaseReturn ==
    /\ session.stage = "vulkan_init"
    /\ lifecycle \in {"initialized", "failed"}
    /\ session' = [session EXCEPT !.stage = IF lifecycle = "initialized"
                                            THEN "created" ELSE "null"]
    /\ UNCHANGED <<processorVars, main>>

\* No call of the session is in progress.
SessionIdle == session.stage = "created" /\ pc = "idle" /\ session.handled = calls

\* TextEnhancer_SubmitPreProcess with frame f.
TextEnhancer_SubmitPreProcess(f) ==
    /\ SessionIdle
    /\ IF session.preprocessor_type = "kVulkan"
       THEN CallSubmitCpu(current_idx, f, config.max_in_width, config.max_in_height, 4)
       ELSE /\ session' = [session EXCEPT
                             !.preprocessed_data_[current_idx] = ResizeImageBilinear(CpuPixels(f)),
                             !.submitted = session.frame_index_,
                             !.status = "kTextEnhancerOk"]
            /\ UNCHANGED <<processorVars, main>>

\* TextEnhancer_SubmitPreProcess_AHB with the platform buffer of handle h.
TextEnhancer_SubmitPreProcess_AHB(h) ==
    /\ SessionIdle
    /\ IF session.preprocessor_type = "kVulkan"
       THEN CallSubmitAhb(current_idx, h)
       ELSE /\ session' = [session EXCEPT !.status = "kTextEnhancerInputError"]
            /\ UNCHANGED <<processorVars, main>>

\* Mutant: a successful Submit moves on to the next slot.
SubmitPreProcessReturnAdvances ==
    /\ session.stage = "created"
    /\ pc = "idle" /\ cur.op \in SubmitOps /\ session.handled < calls
    /\ session' = IF ret = "true"
                  THEN [session EXCEPT !.handled = calls, !.status = "kTextEnhancerOk",
                                       !.submitted = session.frame_index_,
                                       !.frame_index_ = @ + 1]
                  ELSE [session EXCEPT !.handled = calls,
                                       !.status = "kTextEnhancerRuntimeError"]
    /\ UNCHANGED <<processorVars, main>>

\* Either Submit, once SubmitPreprocessImage has returned.
SubmitPreProcessReturn ==
    /\ session.stage = "created"
    /\ pc = "idle" /\ cur.op \in SubmitOps /\ session.handled < calls
    /\ session' = IF ret = "true"
                  THEN [session EXCEPT !.handled = calls, !.status = "kTextEnhancerOk",
                                       !.submitted = session.frame_index_]
                  ELSE [session EXCEPT !.handled = calls,
                                       !.status = "kTextEnhancerRuntimeError"]
    /\ UNCHANGED <<processorVars, main>>

\* The end of a successful TextEnhancer_SyncPreProcess: the slot's buffer is
\* written to the input tensor and frame_index_ is incremented.
WriteInputBuffer(s) ==
    [s EXCEPT !.input_buffer = [data |-> s.preprocessed_data_[current_idx],
                                frame |-> s.frame_index_],
              !.frame_index_ = @ + 1,
              !.synced_slot = current_idx,
              !.syncs = @ + 1,
              !.status = "kTextEnhancerOk"]

\* TextEnhancer_SyncPreProcess: with the Vulkan preprocessor up to the call of
\* SyncPreprocess, with the CPU preprocessor all of it.
TextEnhancer_SyncPreProcess ==
    /\ SessionIdle
    /\ IF session.preprocessor_type = "kVulkan"
       THEN CallSync(current_idx)
       ELSE /\ session.frame_index_ < MaxSyncs
            /\ \E writeOk \in BOOLEAN :
                 session' = IF writeOk THEN WriteInputBuffer(session)
                            ELSE [session EXCEPT !.status = "kTextEnhancerRuntimeError"]
            /\ UNCHANGED <<processorVars, main>>

\* The rest of it, once SyncPreprocess has returned.
SyncPreProcessReturn ==
    /\ session.stage = "created"
    /\ pc = "idle" /\ cur.op = "Sync" /\ session.handled < calls
    /\ \E writeOk \in BOOLEAN :
         LET filled == [session EXCEPT !.handled = calls,
                                       !.preprocessed_data_[current_idx] = out_data]
         IN /\ ret # "true" => writeOk
            /\ session' =
                 IF ret # "true"
                 THEN [session EXCEPT !.handled = calls,
                                      !.status = "kTextEnhancerRuntimeError"]
                 ELSE IF writeOk THEN WriteInputBuffer(filled)
                 ELSE [filled EXCEPT !.status = "kTextEnhancerRuntimeError"]
    /\ UNCHANGED <<processorVars, main>>

\* Mutant: the data of the slot the next frame will use.
synced_idx_current == current_idx

\* TextEnhancer_GetPreprocessedData's synced_idx.
synced_idx == Remainder(session.frame_index_ - 1, kMaxFramesInFlight)

\* TextEnhancer_GetPreprocessedData. The buffers are sized by Initialize_Base
\* and never empty; an index outside the array reads whatever lies there.
TextEnhancer_GetPreprocessedData ==
    /\ SessionIdle
    /\ IF synced_idx \in Slots
       THEN session' = [session EXCEPT
                          !.status = "kTextEnhancerOk",
                          !.data = [idx |-> synced_idx,
                                    bytes |-> session.preprocessed_data_[synced_idx]]]
       ELSE \E st \in {"kTextEnhancerOk", "kTextEnhancerFailed"},
               b \in {session.preprocessed_data_[s] : s \in Slots} \cup {NoSync} :
              session' = [session EXCEPT !.status = st,
                                         !.data = [idx |-> synced_idx, bytes |-> b]]
    /\ UNCHANGED <<processorVars, main>>

\* A session is created for a processor that is still to be initialized.
SessionInit ==
    /\ InitProcessor
    /\ kEnableValidationLayers = FALSE
    /\ config \in {[DefaultConfig EXCEPT !.is_output_int8 = i8] : i8 \in BOOLEAN}
    /\ helper_in = DefaultHelperIn
    /\ helper_out = NotCalled

SessionNext ==
    \/ \E options \in SessionOptions, model_int8 \in BOOLEAN :
          TextEnhancer_Initialize_Base(options, model_int8)
    \/ session.stage = "vulkan_init" /\ Initialize
    \/ InitializeBaseReturn
    \/ \E f \in Frames : TextEnhancer_SubmitPreProcess(f)
    \/ \E h \in Handles : TextEnhancer_SubmitPreProcess_AHB(h)
    \/ SubmitPreProcessReturn
    \/ TextEnhancer_SyncPreProcess
    \/ SyncPreProcessReturn
    \/ TextEnhancer_GetPreprocessedData
    \/ SubmitWaitFence
    \/ SubmitCpuStage
    \/ SubmitCpuRecord
    \/ SubmitAhbImport
    \/ SubmitAhbRecord
    \/ SyncWaitFence
    \/ SyncRead
    \/ GpuExecute

SessionSpec == SessionInit /\ [][SessionNext]_vars

\* C28 (as claimed): with the Vulkan preprocessor, no session is created when
\* use_int8_preprocessor differs from the element type of the model's input.
C28_MismatchedInt8OptionFails ==
    (session.preprocessor_type = "kVulkan"
       /\ session.use_int8_preprocessor # session.model_int8)
      => session.stage # "created"

\* C27: a TextEnhancer_GetPreprocessedData called after k >= 1 successful
\* TextEnhancer_SyncPreProcess calls returns the buffer of slot (k - 1) mod 2;
\* that is the slot the most recent successful Sync used, and the buffer still
\* holds what that Sync wrote to the input tensor.
C27_GetReturnsLastSyncedSlot ==
    [][(TextEnhancer_GetPreprocessedData /\ session.syncs >= 1)
         => /\ session'.status = "kTextEnhancerOk"
            /\ session'.data.idx = (session.syncs - 1) % 2
            /\ session'.data.idx = session.synced_slot
            /\ session'.data.bytes = session.input_buffer.data]_vars

\* With the Vulkan preprocessor, after two successful Syncs of which the first
\* delivered the output of a submitted frame, the data of slot 1 was returned.
C27_Witness ==
    /\ session.preprocessor_type = "kVulkan"
    /\ session.syncs = 2 /\ session.data.idx = 1
    /\ session.preprocessed_data_[0] # Unwritten

\* C30: through the session API, work is pending on the GPU for at most one
\* slot, once, and that slot is frame_index_ mod 2.
C30_PendingOnlyOnCurrentSlot ==
    /\ Len(queue) <= 1
    /\ \A s \in Slots : Pending(s) => s = session.frame_index_ % 2

\* Work is pending on slot 1 after the frame of slot 0 was synced.
C30_Witness ==
    /\ session.stage = "created" /\ session.frame_index_ = 1
    /\ Pending(1) /\ session.input_buffer.data # Unwritten

\* ------------------------------------------------- the standalone driver
\* Mutant: the loop syncs frame N before it runs the inference.
LoopStagesSyncFirst == <<"submit", "sync", "run">>

\* One iteration of the driver's loop: submit frame N, run the inference (and
\* post-process its output), sync frame N.
LoopStages == <<"submit", "run", "sync">>

\* The stages in which the driver calls the session and tests the status.
CallStages == {"warmup_submit", "warmup_sync", "submit", "sync"}

\* Where the loop starts.
FirstStage ==
    IF 0 < NumRuns THEN [pc |-> LoopStages[1], i |-> 0] ELSE [pc |-> "done", i |-> 0]

\* Where the driver goes after stage st of iteration i of the loop.
StageAfter(st, i) ==
    LET k == CHOOSE j \in DOMAIN LoopStages : LoopStages[j] = st
    IN IF k < Len(LoopStages) THEN [pc |-> LoopStages[k + 1], i |-> i]
       ELSE IF i + 1 < NumRuns THEN [pc |-> LoopStages[1], i |-> i + 1]
       ELSE [pc |-> "done", i |-> i + 1]

\* The driver moves on to stage next, having run the inference or not; status
\* is about to be assigned by the session call of a stage that makes one.
Enter(next, ran) ==
    /\ main' = [main EXCEPT !.pc = next.pc, !.i = next.i,
                            !.runs = IF ran THEN @ + 1 ELSE @,
                            !.consumed = IF ran THEN session.input_buffer.frame ELSE @]
    /\ session' = IF next.pc \in CallStages THEN [session EXCEPT !.status = "none"]
                  ELSE session
    /\ UNCHANGED processorVars

\* The session call of the current stage has returned.
Returned == SessionIdle /\ session.status # "none"

\* RunStandaloneSession reaches the warm-up with a session, on Android
\* (platform buffer input) or elsewhere (CPU buffer input).
MainStart(android) ==
    /\ main.pc = "none"
    /\ SessionIdle
    /\ main' = [main EXCEPT !.pc = "warmup_submit", !.android = android]
    /\ session' = [session EXCEPT !.status = "none"]
    /\ UNCHANGED processorVars

\* The Submit of the warm-up or of the loop.
MainSubmit ==
    /\ main.pc \in {"warmup_submit", "submit"}
    /\ session.status = "none"
    /\ IF main.android THEN TextEnhancer_SubmitPreProcess_AHB(1)
       ELSE TextEnhancer_SubmitPreProcess(1)

\* The Sync of the warm-up or of the loop.
MainSync ==
    /\ main.pc \in {"warmup_sync", "sync"}
    /\ session.status = "none"
    /\ TextEnhancer_SyncPreProcess

\* The test of the status a Submit or a Sync returned: anything but
\* kTextEnhancerOk ends the driver.
MainAfterCall ==
    /\ main.pc \in CallStages
    /\ Returned
    /\ Enter(IF session.status # "kTextEnhancerOk" THEN [pc |-> "exit", i |-> main.i]
             ELSE IF main.pc = "warmup_submit" THEN [pc |-> "warmup_sync", i |-> 0]
             ELSE IF main.pc = "warmup_sync" THEN [pc |-> "warmup_run", i |-> 0]
             ELSE StageAfter(main.pc, main.i), FALSE)

\* The warm-up's TextEnhancer_Run (and PostProcess), whose status is ignored.
MainWarmupRun ==
    /\ main.pc = "warmup_run"
    /\ Enter(FirstStage, TRUE)

\* The loop's TextEnhancer_Run and TextEnhancer_PostProcess: a failure of
\* either ends the driver.
MainRun ==
    /\ main.pc = "run"
    /\ \E ok \in BOOLEAN :
         Enter(IF ok THEN StageAfter("run", main.i) ELSE [pc |-> "exit", i |-> main.i], TRUE)

MainNext ==
    \/ \E options \in SessionOptions, model_int8 \in BOOLEAN :
          TextEnhancer_Initialize_Base(options, model_int8)
    \/ session.stage = "vulkan_init" /\ Initialize
    \/ InitializeBaseReturn
    \/ \E android \in BOOLEAN : MainStart(android)
    \/ MainSubmit
    \/ SubmitPreProcessReturn
    \/ MainSync
    \/ SyncPreProcessReturn
    \/ MainAfterCall
    \/ MainWarmupRun
    \/ MainRun
    \/ SubmitWaitFence
    \/ SubmitCpuStage
    \/ SubmitCpuRecord
    \/ SubmitAhbImport
    \/ SubmitAhbRecord
    \/ SyncWaitFence
    \/ SyncRead
    \/ GpuExecute

MainSpec == SessionInit /\ [][MainNext]_vars

C31_FrameIndexAdvancesOnlyOnSync ==
    /\ [][(SyncPreProcessReturn
             \/ (session.preprocessor_type = "kCpu" /\ TextEnhancer_SyncPreProcess))
            => session'.frame_index_ =
                 IF session'.status = "kTextEnhancerOk"
                 THEN session.frame_index_ + 1 ELSE session.frame_index_]_vars
    /\ [][session'.frame_index_ # session.frame_index_
            => (SyncPreProcessReturn
                  \/ (session.preprocessor_type = "kCpu" /\ TextEnhancer_SyncPreProcess))]_vars
    /\ [][(calls' # calls /\ cur.op \in SubmitOps /\ cur'.op = "Sync")
            => cur'.slot = cur.slot]_vars

\* With the Vulkan preprocessor, a Sync failed on slot 1 after the Sync that
\* followed the Submit of frame 0 had succeeded.
C31_Witness ==
    /\ session.preprocessor_type = "kVulkan"
    /\ pc = "idle" /\ cur.op = "Sync" /\ cur.slot = 1 /\ session.handled = calls
    /\ session.status = "kTextEnhancerRuntimeError"
    /\ session.frame_index_ = 1 /\ session.submitted = 0

\* C32 (as claimed): a CPU-path Submit that has passed its entry checks copies
\* a region no wider and no higher than the persistent input image, which
\* Initialize created max_in_width by max_in_height.
C32_CopyRegionFitsInputImage ==
    (cur.op = "SubmitCpu" /\ pc \in {"wait", "stage", "record"})
      => (cur.w <= config.max_in_width /\ cur.h <= config.max_in_height)

C34_ImportedHandlesDestroyedOnce ==
    /\ [](ImportHandles \subseteq live)
    /\ [][((pc = "import" /\ cur'.destroyed) \/ (pc = "shut_wait" /\ lifecycle' = "shutdown"))
            => /\ ImportHandles \subseteq live
               /\ live' \cap ImportHandles = {}]_vars

\* C35 (as claimed): the bytes a Sync(s) that returns true has delivered are
\* the output the GPU computed for an input given to an earlier successful
\* Submit(s); in particular a Sync on a slot no Submit has succeeded on does
\* not return true.
C35_SyncDeliversSubmittedWork ==
    (pc = "idle" /\ cur.op = "Sync" /\ ret = "true")
      => out_data \in {Shader(p) : p \in given[cur.slot]}

\* The TimingInfo fields only SyncPreprocess assigns.
SyncTimingFields == {"readback_copy_ms", "gpu_shader_ms", "gpu_readback_ms"}

\* C36: a step changes the TimingInfo of slot s only as part of a Submit or a
\* Sync on s; the step by which a Submit(s) passes its entry checks leaves all
\* five fields of slot s at zero; and a readback-copy, GPU-shader or
\* GPU-readback measurement enters slot s only in a step of a Sync(s), so that
\* from a validated Submit(s) on, while it runs and after it returned, those
\* three fields of slot s hold no measurement.
C36_TimingsAreSlotLocalAndResetBySubmit ==
    /\ [][\A s \in Slots : last_timings_'[s] # last_timings_[s]
            => (cur'.op \in SubmitOps \cup {"Sync"} /\ cur'.slot = s)]_vars
    /\ [][(calls' # calls /\ cur'.op \in SubmitOps /\ pc' = "wait")
            => last_timings_'[cur'.slot] = NoTimings]_vars
    /\ [][\A s \in Slots : (last_timings_'[s] \cap SyncTimingFields) \ last_timings_[s] # {}
            => (cur.op = "Sync" /\ cur.slot = s /\ pc = "sync_read")]_vars
    /\ []((cur.op \in SubmitOps /\ (pc # "idle" \/ cur.reset))
            => last_timings_[cur.slot] \cap SyncTimingFields = {})

\* A Submit on a slot whose earlier Sync had copied the readback buffer out
\* (and so measured readback_copy_ms) has waited for the fence: the slot holds
\* the Submit's own measurement only, the other slot none.
C36_Witness ==
    /\ cur.op \in SubmitOps /\ pc \in {"stage", "import"}
    /\ copied_bytes > 0
    /\ last_timings_[cur.slot] = {"gpu_submit_wait_ms"}
    /\ \A s \in Slots \ {cur.slot} : last_timings_[s] = NoTimings

\* Channel counts the input tensor of a model file may have
\* (session->model_input_channels, read from the tensor's layout unchecked).
ModelInputChannels == 1 .. MaxModelChannels

\* TextEnhancer_Initialize_Base's num_elements, the size of each per-slot
\* preprocessed buffer; the model's input width and height are the out_width
\* and out_height the processor is initialized with.
num_elements(model_input_channels) ==
    config.out_width * config.out_height * model_input_channels

\* C37 (as claimed): when a TextEnhancer_SyncPreProcess of a Vulkan session has
\* had the processor copy a frame into the slot's preprocessed buffer, the
\* number of elements copied is at most the number of elements of the buffer,
\* whatever the channel count of the model's input tensor.
C37_SyncWriteFitsPreprocessedBuffer ==
    \A model_input_channels \in ModelInputChannels :
        (/\ session.stage = "created" /\ session.preprocessor_type = "kVulkan"
         /\ pc = "idle" /\ cur.op = "Sync" /\ ret = "true")
          => copied_bytes \div SampleBytes(config) <= num_elements(model_input_channels)

\* C38 (as claimed): every TextEnhancer_GetPreprocessedData, whatever the
\* frame index it is called at, 0 (no Sync has succeeded yet) included, takes
\* its buffer from slot 0 or slot 1 of the per-slot preprocessed buffers.
C38_GetIndexesOnlySlots ==
    [][TextEnhancer_GetPreprocessedData => synced_idx \in Slots]_vars

====
